---- MODULE Spec2Model ----
(***************************************************************************)
(* Sword & Magic (src/main.py): the per-frame combat simulation, the enemy  *)
(* behaviour pass, and the wave / stage scheduler.                          *)
(*                                                                          *)
(* Time is counted in ticks of 0.05 s, speeds in thousandths, summon        *)
(* thresholds in tenths of max_hp and bleed dps in tenths.  In the frame,   *)
(* geometry (rectangles, distances) is an input: whether a sword swing      *)
(* reaches an enemy, an enemy touches the player or a projectile meets a    *)
(* target.  The player's position and the play clock are fields of the      *)
(* records because the save file carries them; the frame leaves the        *)
(* position where the last load or hub entry put it (the walk is modelled   *)
(* on its own, Move) and advances the play clock only under a play style    *)
(* that follows it.  Random draws (minion kind, drop amounts, heal drop, mana        *)
(* regeneration) are inputs.                                                *)
(***************************************************************************)
EXTENDS Integers, Sequences, FiniteSets, TLC

VARIABLES
    state,        \* GameState: the scheduler's scalar fields
    player,       \* GameState.player
    enemies,      \* GameState.enemies (list, in list order)
    projectiles,  \* GameState.projectiles
    drops,        \* GameState.drops
    ev            \* what the last handler did (observation, not program state)

vars == <<state, player, enemies, projectiles, drops, ev>>

-----------------------------------------------------------------------------
(* Bounds of the model *)

MaxSpawn == 1          \* cap on the minions of one wave (the code spawns WaveCount)
MaxEnemies == 14       \* cap on the length of the enemy list
MaxProjectiles == 1    \* cap on the projectiles in flight
MaxDrops == 3          \* cap on the drops lying on the ground
MaxScore == 150        \* cap on the score counter
MaxNG == 1             \* cap on the New-Game-Plus counter
MaxKinds == 1          \* minion kinds drawn per stage (from the second entry on)
MaxPlayTime == 280     \* cap on the play clock where it is followed (14 s)

-----------------------------------------------------------------------------
(* Program constants *)

WIDTH == 1280
HEIGHT == 720
PLAYER_BASE_HP == 40
PLAYER_BASE_MANA == 20
PLAYER_BASE_ATK == 8
PLAYER_BASE_MAG == 8
PLAYER_BASE_SPD == 4
DASH_MANA_COST == 1
MAGIC_MANA_COST == 3
INVULN_TIME == 12                \* 0.6 s
MINION_WAVES_PER_STAGE == 5
SECRET_BOSS_STAGE == 11
LEAVE_COOLDOWN == 10             \* 0.5 s, leave_safe_area
WAVE_COOLDOWN == 100             \* 5.0 s, between waves
POST_BOSS_10_DELAY == 400        \* 20.0 s
HP_REGEN_INTERVAL == 20          \* 1.0 s
HP_REGEN_AMOUNT == 1
BLEED_CHUNK == 10                \* 0.5 s
SUMMON_COUNT == 3
REVIVE_SPEED_INC == 300          \* 0.3
SWORD_RANGE == 50
HEALTH_DROP_AMOUNT_RANGE == <<4, 10>>

Min(a, b) == IF a <= b THEN a ELSE b
Max(a, b) == IF a >= b THEN a ELSE b

RECURSIVE Pow(_, _)
Pow(b, n) == IF n = 0 THEN 1 ELSE b * Pow(b, n - 1)

WEAPONS ==
    [ starter      |-> [price |-> 0,    range |-> 0,  dmg10 |-> 0,   mult10 |-> 10],
      wood         |-> [price |-> 200,  range |-> 5,  dmg10 |-> 0,   mult10 |-> 10],
      twin_daggers |-> [price |-> 400,  range |-> -2, dmg10 |-> 0,   mult10 |-> 20],
      long_sword   |-> [price |-> 1000, range |-> 10, dmg10 |-> 30,  mult10 |-> 15],
      war_axe      |-> [price |-> 1400, range |-> 5,  dmg10 |-> 95,  mult10 |-> 13],
      war_hammer   |-> [price |-> 1600, range |-> 5,  dmg10 |-> 73,  mult10 |-> 15],
      god_sword    |-> [price |-> 5000, range |-> 30, dmg10 |-> 500, mult10 |-> 50] ]

ARMORS ==
    [ none   |-> [price |-> 0,    hits |-> 0],
      light  |-> [price |-> 200,  hits |-> 2],
      medium |-> [price |-> 400,  hits |-> 4],
      heavy  |-> [price |-> 800,  hits |-> 6],
      super  |-> [price |-> 1600, hits |-> 10],
      god    |-> [price |-> 6000, hits |-> 20] ]

ORDERED_WEAPONS ==
    <<"starter", "wood", "twin_daggers", "long_sword", "war_axe", "war_hammer", "god_sword">>
ORDERED_ARMORS == <<"none", "light", "medium", "heavy", "super", "god">>

IndexOf(seq, x) == CHOOSE i \in 1..Len(seq) : seq[i] = x

get_weapon(p) ==
    IF p.weapon_id \in DOMAIN WEAPONS THEN WEAPONS[p.weapon_id] ELSE WEAPONS["starter"]

get_armor(p) ==
    IF p.armor_id \in DOMAIN ARMORS THEN ARMORS[p.armor_id] ELSE ARMORS["none"]

BOSS_LIST ==
    << "Ba'al (The Insect King)", "Trefyr Herahid (The Dark Elf)",
       "Viscardi (Vampire Lord)", "Rox and Tox",
       "Thilreriltic (Lesser Demon Prince)", "Gorzak (Fire Giant Mage)",
       "Dram'zuku (The Undead King)", "Alhazred (Pack Leader)",
       "Noaghoirth, Destroyer of Men", "Zasu (Demon King)" >>
SECRET_BOSS == "Shyssa (Demon Queen)"
TWIN_NAMES == {"Rox (Big Twin)", "Tox (Small Twin)"}

MINIONS == <<"Imp", "Skeleton", "Demon">>

STAGE_ENEMIES ==
    [ s \in 1..10 |->
        CASE s = 1  -> <<"Bee", "Fly", "Centipede">>
          [] s = 2  -> <<"Goblin Warrior", "Goblin Bomber", "Hag", "Ogre">>
          [] s = 3  -> <<"Bat", "Thrall", "Ghoul">>
          [] s = 4  -> <<"Zombie", "Skeleton Warrior", "Skeleton Archer", "Ghoul">>
          [] s = 5  -> <<"Imp", "Demon", "Zombie">>
          [] s = 6  -> <<"Lava Slime", "Salamander", "Fire Turtle">>
          [] s = 7  -> <<"Zombie", "Undead Mage", "Skeleton Warrior">>
          [] s = 8  -> <<"Wolf", "Werewolf", "Dire Wolf">>
          [] s = 9  -> <<"Drake", "Salamander">>
          [] s = 10 -> <<"Imp", "Demon", "Skeleton">> ]

-----------------------------------------------------------------------------
(* Enemies: the Enemy dataclass and the spawn tables *)

NoThresholds == [t \in {} |-> FALSE]

Thresholds(S) == [t \in S |-> FALSE]

\* Enemy(...) with the dataclass defaults; e.data is flattened into fields.
EnemyBase ==
    [ name |-> "", hp |-> 1, max_hp |-> 1, invuln_timer |-> 0,
      speed |-> 2000, damage |-> 5,
      shoot_interval |-> 0, shoot_timer |-> 0, projectile_damage |-> 6,
      projectile_effect |-> "none", projectile_effect_value |-> 0,
      projectile_effect_duration |-> 0, projectile_pattern |-> "aim",
      on_hit_effect |-> "none", on_hit_effect_value |-> 0,
      on_hit_effect_duration |-> 0,
      can_heal |-> FALSE, heal_delay |-> 60, heal_per_sec |-> 4, since_hit |-> 60,
      speed_doubles_at_half |-> FALSE, sped_up |-> FALSE, revived_once |-> FALSE,
      summon_thresholds |-> NoThresholds, heal_to_80_percent |-> FALSE,
      did_heal |-> FALSE, must_die_by_sword |-> FALSE, last_hit_by_sword |-> FALSE ]

create_enemy_with_stats(name, hp, dmg, speed, ng_plus) ==
    LET h == IF ng_plus > 0 THEN hp * Pow(2, ng_plus) ELSE hp
        d == IF ng_plus > 0 THEN dmg * Pow(2, ng_plus) ELSE dmg
    IN  [EnemyBase EXCEPT !.name = name, !.hp = h, !.max_hp = h,
                          !.speed = speed, !.damage = d]

Shooter(e, interval, pdmg, pattern, effect, value, duration) ==
    [e EXCEPT !.shoot_interval = interval, !.projectile_damage = pdmg,
              !.projectile_pattern = pattern, !.projectile_effect = effect,
              !.projectile_effect_value = value,
              !.projectile_effect_duration = duration]

OnHit(e, effect, value, duration) ==
    [e EXCEPT !.on_hit_effect = effect, !.on_hit_effect_value = value,
              !.on_hit_effect_duration = duration]

\* spawn_minion with the random.choice outcome `name` given
spawn_minion(stage, ng_plus, name) ==
    LET hp == 8 + stage * 3
        dmg == 4 + stage
        speed == 1800 + 50 * stage
        mk(h, d, sp) == create_enemy_with_stats(name, h, d, sp, ng_plus)
    IN  CASE name = "Bee" ->
               Shooter(mk((hp * 8) \div 10, dmg, speed), 40, Max(2, 1 + stage),
                       "aim", "none", 0, 0)
          [] name = "Fly" -> mk((hp * 5) \div 10, (dmg * 7) \div 10, (speed * 15) \div 10)
          [] name = "Centipede" ->
               Shooter(mk((hp * 12) \div 10, dmg, speed), 50, Max(3, 2 + stage),
                       "aim", "poison", 10, 60)
          [] name = "Goblin Warrior" -> mk(hp, dmg, speed)
          [] name = "Goblin Bomber" ->
               Shooter(mk(hp, dmg, speed), 60, Max(5, 3 + stage), "bomb", "none", 0, 0)
          [] name = "Hag" ->
               Shooter(mk(hp, dmg, speed), 56, Max(2, 1 + stage), "aim", "poison", 10, 60)
          [] name = "Ogre" ->
               OnHit(mk((hp * 18) \div 10, (dmg * 15) \div 10, (speed * 6) \div 10),
                     "knockback", 1250, 0)
          [] name = "Bat" -> mk(1, dmg, (speed * 18) \div 10)
          [] name = "Thrall" -> OnHit(mk((hp * 8) \div 10, dmg, speed), "bleed", 5, 40)
          [] name = "Ghoul" -> mk(hp, dmg, speed)
          [] name = "Zombie" ->
               OnHit(mk((hp * 13) \div 10, dmg, (speed * 8) \div 10), "slow", 0, 40)
          [] name = "Skeleton Warrior" -> mk(hp, dmg, speed)
          [] name = "Skeleton Archer" ->
               Shooter(mk(hp, dmg, speed), 44, Max(3, 2 + stage), "aim", "none", 0, 0)
          [] name = "Lava Slime" -> mk(hp, dmg, (speed * 5) \div 10)
          [] name = "Salamander" ->
               Shooter(mk(hp, dmg, speed), 40, Max(4, 3 + stage), "breath", "burn", 10, 100)
          [] name = "Fire Turtle" ->
               OnHit(mk((hp * 14) \div 10, dmg, (speed * 7) \div 10), "burn", 10, 100)
          [] name = "Undead Mage" ->
               Shooter(mk(hp, dmg, speed), 50, Max(4, 3 + stage), "aim", "none", 0, 0)
          [] name = "Wolf" -> mk(hp, dmg, (speed * 13) \div 10)
          [] name = "Werewolf" ->
               OnHit(mk((hp * 12) \div 10, (dmg * 11) \div 10, speed), "trauma", 5, 60)
          [] name = "Dire Wolf" -> mk(hp, dmg, (speed * 12) \div 10)
          [] name = "Drake" ->
               Shooter(mk((hp * 15) \div 10, (dmg * 13) \div 10, speed), 36,
                       Max(5, 4 + stage), "triple", "none", 0, 0)
          [] name = "Demon" -> mk(hp * 2, (dmg * 15) \div 10, speed * 2)
          [] name = "Imp" ->
               Shooter(mk(hp, dmg, speed), 36,
                       IF ng_plus > 0 THEN Max(3, 2 + stage) * Pow(2, ng_plus)
                                      ELSE Max(3, 2 + stage),
                       "aim", "none", 0, 0)
          [] OTHER -> mk(hp, dmg, speed)

\* STAGE_ENEMIES.get(stage, MINIONS)
EnemyList(stage) == IF stage \in DOMAIN STAGE_ENEMIES THEN STAGE_ENEMIES[stage] ELSE MINIONS

\* int(base_count * (1.3 ** (state.wave - 1)))
WaveCount(stage, wave) == ((3 + stage) * Pow(13, wave - 1)) \div Pow(10, wave - 1)

NGScale(v, ng_plus) == IF ng_plus > 0 THEN v * Pow(2, ng_plus) ELSE v

\* spawn_boss: the list of enemies of the boss encounter of a stage
spawn_boss(stage, ng_plus) ==
    IF stage = SECRET_BOSS_STAGE
    THEN LET queen == [EnemyBase EXCEPT !.name = SECRET_BOSS,
                           !.hp = NGScale(600, ng_plus), !.max_hp = NGScale(600, ng_plus),
                           !.speed = 2200, !.damage = NGScale(28, ng_plus),
                           !.shoot_interval = 56, !.projectile_damage = NGScale(10, ng_plus),
                           !.projectile_pattern = "aim",
                           !.summon_thresholds = Thresholds({8, 6, 4, 2}),
                           !.must_die_by_sword = TRUE]
         IN  <<queen>>
    ELSE LET idx == Min(stage - 1, Len(BOSS_LIST) - 1) + 1
             name == BOSS_LIST[idx]
             hp0 == 650 + stage * 20
             hp1 == IF stage <= 5 THEN (hp0 * 3) \div 4 ELSE hp0
             base_hp == NGScale(hp1, ng_plus)
             base_dmg == NGScale(12 + stage, ng_plus)
             base_speed == 2000 + 50 * stage
             e0 == [EnemyBase EXCEPT !.name = name, !.hp = base_hp, !.max_hp = base_hp,
                                     !.speed = base_speed, !.damage = base_dmg]
             thr(e, S) == [e EXCEPT !.summon_thresholds = Thresholds(S)]
             pd(v) == NGScale(v, ng_plus)
             e == CASE idx = 1 -> thr(Shooter(e0, 36, pd(10), "aim", "none", 0, 0), {7, 4})
                    [] idx = 2 -> thr(Shooter(e0, 24, pd(9), "aim", "none", 0, 0), {6, 3})
                    [] idx = 3 -> thr(OnHit(e0, "bleed", NGScale(20, ng_plus), 200), {5, 2})
                    [] idx = 4 -> [thr(e0, {6, 3}) EXCEPT !.name = "Rox (Big Twin)"]
                    [] idx = 5 -> [thr(Shooter(e0, 30, pd(11), "cross8", "none", 0, 0), {7, 4})
                                      EXCEPT !.heal_to_80_percent = TRUE]
                    [] idx = 6 -> thr(OnHit(Shooter(e0, 48, pd(14), "aim", "none", 0, 0),
                                            "no_heal", 0, 200), {6, 3})
                    [] idx = 7 -> [thr(Shooter(e0, 36, pd(11), "aim", "none", 0, 0), {5, 2})
                                      EXCEPT !.can_heal = TRUE, !.heal_delay = 60,
                                             !.heal_per_sec = NGScale(6, ng_plus)]
                    [] idx = 8 -> [thr(e0, {6, 3}) EXCEPT !.speed_doubles_at_half = TRUE]
                    [] idx = 9 -> thr(Shooter(e0, 5, pd(6), "breath", "none", 0, 0), {7, 4})
                    [] idx = 10 -> thr(e0, {8, 6, 4, 2})
             e2 == [thr(e0, {6, 3}) EXCEPT !.name = "Tox (Small Twin)",
                                          !.hp = base_hp - 80, !.max_hp = base_hp - 80,
                                          !.speed = base_speed + 200,
                                          !.damage = base_dmg - 2]
         IN  IF idx = 4 THEN <<e, e2>> ELSE <<e>>

-----------------------------------------------------------------------------
(* Rewards *)

\* BOSS_REWARDS[name] as <<exp range, gold range>>, or <<>> when name is no key
BOSS_REWARDS(name) ==
    CASE name \in {"Ba'al (The Insect King)", "Trefyr Herahid (The Dark Elf)",
                   "Viscardi (Vampire Lord)", "Rox and Tox", "Rox (Big Twin)",
                   "Tox (Small Twin)", "Thilreriltic (Lesser Demon Prince)"}
              -> <<(<<25, 35>>), (<<15, 24>>)>>
      [] name \in {"Gorzak (Fire Giant Mage)", "Dram'zuku (The Undead King)",
                   "Alhazred (Pack Leader)", "Noaghoirth, Destroyer of Men",
                   "Zasu (Demon King)"}
              -> <<(<<35, 55>>), (<<24, 45>>)>>
      [] name = "Shyssa (Demon Queen)" -> <<(<<60, 90>>), (<<53, 75>>)>>
      [] OTHER -> <<>>

Draw(range, roll) == IF roll = "lo" THEN range[1] ELSE range[2]

\* drop_rewards: the drops appended for one removed enemy.  roll and heal are
\* the outcomes of the random draws.
drop_rewards(is_boss, stage, boss_name, roll, heal) ==
    LET tab == BOSS_REWARDS(boss_name)
        expR == IF is_boss
                THEN IF tab # <<>> THEN tab[1]
                     ELSE IF stage <= 5 THEN <<13, 33>>
                     ELSE IF stage <= 10 THEN <<35, 55>> ELSE <<65, 80>>
                ELSE <<5, 9>>
        goldR == IF is_boss
                 THEN IF tab # <<>> THEN tab[2]
                      ELSE IF stage <= 5 THEN <<14, 30>>
                      ELSE IF stage <= 10 THEN <<34, 51>> ELSE <<60, 83>>
                 ELSE <<10, 13>>
        base == << [kind |-> "gold", amount |-> Draw(goldR, roll)],
                   [kind |-> "exp", amount |-> Draw(expR, roll)] >>
    IN  IF heal
        THEN Append(base, [kind |-> "heal", amount |-> Draw(HEALTH_DROP_AMOUNT_RANGE, roll)])
        ELSE base

\* a requirement that grows by 20 with every block of five levels
exp_needed_linear(level) == 20 * (1 + level \div 5)

get_exp_needed_for_level(level) == 20 * Pow(2, level \div 5)

\* int(v * (1 + LEVEL_UP_INCREASE_PERCENT)); equal to the float result for v < 120
Grow(v) == (v * 1025) \div 1000

apply_levelup_choice(p, choice) ==
    CASE choice = "Attack" -> [p EXCEPT !.atk = Grow(p.atk)]
      [] choice = "Magic"  -> [p EXCEPT !.mag = Grow(p.mag)]
      [] choice = "Health" ->
            LET m == Grow(p.max_hp)
            IN  [p EXCEPT !.max_hp = m, !.hp = Min(m, p.hp + (m - p.max_hp))]
      [] choice = "Mana" ->
            LET m == Grow(p.max_mana)
            IN  [p EXCEPT !.max_mana = m, !.mana = Min(m, p.mana + (m - p.max_mana))]

stat_cycle == <<"Attack", "Magic", "Health", "Mana">>

\* an if in place of the while loop
LevelUpOnce(p) ==
    IF p.exp >= get_exp_needed_for_level(p.level)
    THEN LET q == [p EXCEPT !.exp = p.exp - get_exp_needed_for_level(p.level),
                            !.level = p.level + 1]
         IN  apply_levelup_choice(q, stat_cycle[((q.level - 1) % 4) + 1])
    ELSE p

\* the floating messages of the while loop: "Level <level>! +<stat>"
RECURSIVE LevelNotes(_)
LevelNotes(p) ==
    IF p.exp >= get_exp_needed_for_level(p.level)
    THEN LET q == [p EXCEPT !.exp = p.exp - get_exp_needed_for_level(p.level),
                            !.level = p.level + 1]
             stat_to_increase == stat_cycle[((q.level - 1) % 4) + 1]
         IN  <<[level |-> q.level, stat |-> stat_to_increase]>>
                 \o LevelNotes(apply_levelup_choice(q, stat_to_increase))
    ELSE <<>>

\* the while loop of check_pickups
RECURSIVE LevelUps(_)
LevelUps(p) ==
    IF p.exp >= get_exp_needed_for_level(p.level)
    THEN LET q == [p EXCEPT !.exp = p.exp - get_exp_needed_for_level(p.level),
                            !.level = p.level + 1]
         IN  LevelUps(apply_levelup_choice(q, stat_cycle[((q.level - 1) % 4) + 1]))
    ELSE p

\* one drop picked up
Pickup(p, d) ==
    CASE d.kind = "gold" -> [p EXCEPT !.gold = p.gold + d.amount]
      [] d.kind = "exp"  -> LevelUps([p EXCEPT !.exp = p.exp + d.amount])
      [] d.kind = "heal" -> [p EXCEPT !.hp = Min(p.max_hp, p.hp + d.amount)]

RECURSIVE PickAll(_, _, _)
PickAll(p, ds, i) == IF i > Len(ds) THEN p ELSE PickAll(Pickup(p, ds[i]), ds, i + 1)

\* check_pickups; touched tells whether the player stands on the drops
check_pickups(p, ds, touched) ==
    IF touched THEN [p |-> PickAll(p, ds, 1), dr |-> <<>>]
               ELSE [p |-> p, dr |-> ds]

replenish_armor(p) ==
    IF p.armor_id # "none"
    THEN [p EXCEPT !.armor_hits_remaining = get_armor(p).hits]
    ELSE p

has_god_equipment(p) == p.weapon_id = "god_sword" /\ p.armor_id = "god"

-----------------------------------------------------------------------------
(* Combat *)

\* Player(...) as New Game and the GameState default build it
PlayerInit ==
    [ hp |-> PLAYER_BASE_HP, max_hp |-> PLAYER_BASE_HP,
      mana |-> PLAYER_BASE_MANA, max_mana |-> PLAYER_BASE_MANA,
      atk |-> PLAYER_BASE_ATK, mag |-> PLAYER_BASE_MAG, spd |-> PLAYER_BASE_SPD,
      gold |-> 0, exp |-> 0, level |-> 1,
      weapon_id |-> "starter", armor_id |-> "none", armor_hits_remaining |-> 0,
      invuln_timer |-> 0, bleed_time_left |-> 0, bleed_tick_accum |-> 0,
      bleed_dps |-> 0, no_heal_time_left |-> 0,
      x |-> 1000 * (WIDTH \div 2 - 16), y |-> 1000 * (HEIGHT \div 2 - 16) ]

\* GameState() scalar fields
StateInit ==
    [ stage |-> 1, wave |-> 1, in_safe_area |-> FALSE, score |-> 0,
      stage_start_score |-> 0, new_game_plus |-> 0, post_boss_10_delay |-> 0,
      wave_cooldown |-> 0, pending_spawn |-> FALSE, hp_regen_timer |-> 0,
      in_main_menu |-> TRUE,
      play_time |-> 0, volume |-> 60, fullscreen |-> FALSE, sound_enabled |-> TRUE,
      music_enabled |-> TRUE, music_volume |-> 50, sfx_volume |-> 70 ]

NullSnap == [p |-> PlayerInit, st |-> StateInit]

\* What the last handler did, as seen from outside (the trace restarts with
\* every handler; minions and bosses count the spawns since the hub was left).
\*   seen          : each enemy as it stands at the `if e.hp > 0` test, in
\*                   iteration order
\*   kept, commit  : the positions of seen appended to alive, and alive itself
\*   dropped       : the drops the pass appended; passScore: the score it added
\*   passLen       : the length of the enemy list when the pass began
\*   met           : each enemy's hp and did_heal flag as the heal test of the
\*                   pass reads them, in iteration order
\*   hpHit         : the player's hp when the regeneration of the frame begins
\*   steps         : the steps of the frame in the order they ran
\*   shots         : for each enemy of the pass, in iteration order, the
\*                   number of projectiles it emitted
\*   hurt          : for each enemy of the pass, in iteration order, whether
\*                   its contact changed the player
\*   arg           : the arguments of an operation that is run on its own
NoTrace ==
    [ op |-> "init", msgs |-> {}, nkey |-> FALSE, left |-> FALSE, spawned |-> "none",
      cleared |-> FALSE, died |-> FALSE, swordHit |-> FALSE,
      seen |-> <<>>, kept |-> <<>>, commit |-> <<>>, met |-> <<>>, hurt |-> <<>>,
      shots |-> <<>>, steps |-> <<>>, hpHit |-> 0, dropped |-> <<>>, passScore |-> 0, passLen |-> 0, arg |-> <<>>,
      minions |-> 0, bosses |-> 0,
      clrBefore |-> NullSnap, clrAfter |-> NullSnap, deathBefore |-> NullSnap ]

Say(tr, m) == [tr EXCEPT !.msgs = @ \cup {m}]

\* the world after a step of the frame has run
Step(w, s) == [w EXCEPT !.tr.steps = Append(@, s)]

Copies(n, x) == [k \in 1..n |-> x]

\* the weapon bonus left out of the damage
SwordDamageBare(p) == (Max(10, p.atk * 10) * get_weapon(p).mult10) \div 100

\* Player.sword_attack damage
SwordDamage(p) ==
    LET wpn == get_weapon(p)
    IN  (Max(10, p.atk * 10 + wpn.dmg10) * wpn.mult10) \div 100

\* Player.sword_attack: reach is the set of list positions within melee range
sword_attack(p, en, reach) ==
    [ i \in 1..Len(en) |->
        IF en[i].hp > 0 /\ i \in reach
        THEN [en[i] EXCEPT !.hp = @ - SwordDamage(p), !.invuln_timer = INVULN_TIME,
                           !.since_hit = IF en[i].can_heal THEN 0 ELSE @,
                           !.last_hit_by_sword = TRUE]
        ELSE en[i] ]

BASE_SWORD_RANGE == SWORD_RANGE

\* the range test of sword_attack: at[i] is the offset of enemy i's centre
\* from the player's centre, in half pixels
InRange(p, at) ==
    {i \in DOMAIN at :
        at[i][1] * at[i][1] + at[i][2] * at[i][2]
            <= 4 * (BASE_SWORD_RANGE + get_weapon(p).range)
                 * (BASE_SWORD_RANGE + get_weapon(p).range)}

SwordHitAny(en, reach) == \E i \in 1..Len(en) : en[i].hp > 0 /\ i \in reach

NewProjectile(from_player, damage, effect, value, duration) ==
    [ from_player |-> from_player, damage |-> damage, effect |-> effect,
      effect_value |-> value, effect_duration |-> duration ]

\* the projectiles one volley of enemy e emits
Volley(e) ==
    LET n == CASE e.projectile_pattern = "aim" -> 1
               [] e.projectile_pattern = "cross4" -> 4
               [] e.projectile_pattern = "cross8" -> 8
               [] e.projectile_pattern = "breath" -> 5
               [] OTHER -> 0
    IN  Copies(n, NewProjectile(FALSE, e.projectile_damage, e.projectile_effect,
                                e.projectile_effect_value, e.projectile_effect_duration))

\* an effect that stacks on the one already active
ApplyEffectStacked(p, effect, value, duration) ==
    CASE effect = "bleed" ->
             [p EXCEPT !.bleed_time_left = @ + duration, !.bleed_dps = @ + value]
      [] effect = "no_heal" -> [p EXCEPT !.no_heal_time_left = @ + duration]
      [] OTHER -> p

\* the max-merge of an effect onto the player
ApplyEffect(p, effect, value, duration) ==
    CASE effect = "bleed" ->
             [p EXCEPT !.bleed_time_left = Max(@, duration), !.bleed_dps = Max(@, value)]
      [] effect = "no_heal" -> [p EXCEPT !.no_heal_time_left = Max(@, duration)]
      [] OTHER -> p

\* a contact that takes armor and hit points at once
entity_hit_player_through(e, p, overlap) ==
    IF e.hp <= 0 \/ p.invuln_timer > 0 \/ ~overlap THEN p
    ELSE ApplyEffect([p EXCEPT !.armor_hits_remaining = Max(0, @ - 1),
                               !.hp = @ - e.damage,
                               !.invuln_timer = INVULN_TIME],
                     e.on_hit_effect, e.on_hit_effect_value, e.on_hit_effect_duration)

\* a contact that does not ask for the invulnerability timer
entity_hit_player_exposed(e, p, overlap) ==
    IF e.hp <= 0 \/ ~overlap THEN p
    ELSE LET q == IF p.armor_hits_remaining > 0
                  THEN [p EXCEPT !.armor_hits_remaining = @ - 1]
                  ELSE [p EXCEPT !.hp = @ - e.damage]
         IN  ApplyEffect([q EXCEPT !.invuln_timer = INVULN_TIME],
                         e.on_hit_effect, e.on_hit_effect_value, e.on_hit_effect_duration)

\* entity_hit_player; overlap tells whether the rectangles overlap
entity_hit_player(e, p, overlap) ==
    IF e.hp <= 0 THEN p
    ELSE IF p.invuln_timer > 0 THEN p
    ELSE IF overlap
    THEN LET q == IF p.armor_hits_remaining > 0
                  THEN [p EXCEPT !.armor_hits_remaining = @ - 1]
                  ELSE [p EXCEPT !.hp = @ - e.damage]
         IN  ApplyEffect([q EXCEPT !.invuln_timer = INVULN_TIME],
                         e.on_hit_effect, e.on_hit_effect_value, e.on_hit_effect_duration)
    ELSE p

\* the first other twin alive, in list order (0 when there is none)
TwinOf(list, i) ==
    LET S == {j \in 1..Len(list) : j # i /\ list[j].name \in TWIN_NAMES /\ list[j].hp > 0}
    IN  IF S = {} THEN 0 ELSE CHOOSE j \in S : \A k \in S : j <= k

\* --- the body of the loop over state.enemies, for the enemy at position i.
\* c carries the list being iterated (it grows when a threshold summons), the
\* positions kept alive, the player, projectiles, drops, score and trace.

\* shooting: the timer, and whether a volley is due
ShotDue(e, dt) == e.shoot_interval > 0 /\ e.shoot_timer + dt >= e.shoot_interval

Shoot(e, dt) ==
    IF e.shoot_interval > 0
    THEN [e EXCEPT !.shoot_timer =
             IF ShotDue(e, dt) THEN @ + dt - e.shoot_interval ELSE @ + dt]
    ELSE e

Shooting(c, i, dt) ==
    [c EXCEPT !.pr = IF ShotDue(c.list[i], dt) THEN @ \o Volley(c.list[i]) ELSE @,
              !.shots = Append(@, IF ShotDue(c.list[i], dt)
                                  THEN Len(Volley(c.list[i])) ELSE 0),
              !.list[i] = Shoot(@, dt)]

\* a heal that fires whenever the hp is at or below 20%
HealsWhenLow(e) == e.heal_to_80_percent /\ e.hp * 10 <= e.max_hp * 2

\* heal to 80% once, at or below 20%
HealsNow(e) == e.heal_to_80_percent /\ e.hp * 10 <= e.max_hp * 2 /\ ~e.did_heal

HealOnce(e) ==
    IF HealsNow(e) THEN [e EXCEPT !.did_heal = TRUE, !.hp = (e.max_hp * 8) \div 10]
    ELSE e

Healing(c, i) ==
    [c EXCEPT !.tr = [(IF HealsNow(c.list[i]) THEN Say(c.tr, "heals") ELSE c.tr)
                         EXCEPT !.met = Append(@, [hp |-> c.list[i].hp,
                                                   did_heal |-> c.list[i].did_heal])],
              !.list[i] = HealOnce(@)]

\* summon thresholds: those not yet used that the hp ratio has reached
Firing(e) ==
    {t \in DOMAIN e.summon_thresholds :
        ~e.summon_thresholds[t] /\ e.hp * 10 <= e.max_hp * t}

\* a threshold that is never marked as used
MarkNothing(e) == e

MarkFired(e) ==
    [e EXCEPT !.summon_thresholds =
        [t \in DOMAIN e.summon_thresholds |-> e.summon_thresholds[t] \/ t \in Firing(e)]]

Summoning(c, i, st, kind) ==
    [c EXCEPT !.list = [@ EXCEPT ![i] = MarkFired(@)]
                          \o Copies(SUMMON_COUNT * Cardinality(Firing(c.list[i])),
                                    spawn_minion(st.stage, st.new_game_plus, kind))]

\* heal over time if not hit for heal_delay
HealOverTime(e, dt) ==
    IF e.can_heal
    THEN IF Min(e.heal_delay, e.since_hit + dt) >= e.heal_delay
         THEN [e EXCEPT !.since_hit = Min(e.heal_delay, @ + dt),
                        !.hp = Min(e.max_hp, @ + (e.heal_per_sec * dt) \div 20)]
         ELSE [e EXCEPT !.since_hit = Min(e.heal_delay, @ + dt)]
    ELSE e

\* speed doubles once at or below 50%
SpeedUp(e) ==
    IF e.speed_doubles_at_half /\ ~e.sped_up /\ e.hp * 10 <= e.max_hp * 5
    THEN [e EXCEPT !.speed = @ * 2, !.sped_up = TRUE]
    ELSE e

Recovering(c, i, dt) == [c EXCEPT !.list[i] = SpeedUp(HealOverTime(@, dt))]

\* what the trace keeps of an enemy
View(e) ==
    [ name |-> e.name, hp |-> e.hp, max_hp |-> e.max_hp, damage |-> e.damage,
      speed |-> e.speed, revived_once |-> e.revived_once,
      must_die_by_sword |-> e.must_die_by_sword,
      last_hit_by_sword |-> e.last_hit_by_sword,
      summon_thresholds |-> e.summon_thresholds, did_heal |-> e.did_heal,
      shoot_timer |-> e.shoot_timer, sped_up |-> e.sped_up ]

\* contact with the player
Touching(c, i, touch) ==
    [c EXCEPT !.p = entity_hit_player(c.list[i], @, i \in touch),
              !.seen = Append(@, View(c.list[i])),
              !.hurt = Append(@, entity_hit_player(c.list[i], c.p, i \in touch) # c.p)]

\* the Demon King's revive, without the test of revived_once
RevivesAgain(e) == e.name = "Zasu (Demon King)"

\* the Demon King revives once on death
RevivesOnce(e) == e.name = "Zasu (Demon King)" /\ ~e.revived_once

Revived(e) ==
    [e EXCEPT !.revived_once = TRUE,
              !.hp = (e.max_hp * 3) \div 4,
              !.damage = (e.damage * 12) \div 10,
              !.speed = @ + REVIVE_SPEED_INC]

\* the sword gate, without the test of the last hit
SwordGateOpen(e) == FALSE

\* the Demon Queen requires the sword for the final blow
SwordGate(e) == e.name = SECRET_BOSS /\ e.must_die_by_sword /\ ~e.last_hit_by_sword

\* the verdict on the enemy at position i: kept, revived, gated or removed
Verdict(c, i, st, in) ==
    LET e == c.list[i]
        is_boss == st.wave = MINION_WAVES_PER_STAGE + 1
        twin == TwinOf(c.list, i)
    IN  IF e.hp > 0
        THEN [c EXCEPT !.alive = Append(@, i)]
        ELSE IF RevivesOnce(e)
        THEN [c EXCEPT !.list[i] = Revived(@),
                       !.alive = Append(@, i)]
        ELSE IF SwordGate(e)
        THEN [c EXCEPT !.list[i].hp = 1,
                       !.alive = Append(@, i),
                       !.tr = Say(@, "sword only")]
        ELSE [c EXCEPT
                !.list = IF e.name \in TWIN_NAMES /\ twin # 0
                         THEN [@ EXCEPT ![twin].damage = (@ * 15) \div 10]
                         ELSE @,
                !.dr = @ \o drop_rewards(is_boss, st.stage, e.name, in.roll, in.heal),
                !.score = @ + (IF is_boss THEN 10 ELSE 3)]

EnemyStep(c, i, st, in) ==
    Verdict(Touching(Recovering(Summoning(Healing(Shooting(c, i, in.dt), i),
                                          i, st, in.kind),
                                i, in.dt),
                     i, in.touch),
            i, st, in)

\* for e in state.enemies: ...   (the list may grow while it is iterated)
RECURSIVE EnemyLoop(_, _, _, _)
EnemyLoop(c, i, st, in) ==
    IF i > Len(c.list) THEN c ELSE EnemyLoop(EnemyStep(c, i, st, in), i + 1, st, in)

\* the list left as it was iterated, the dead included
Everyone(c) == c.list

\* state.enemies = alive
Alive(c) == [k \in 1..Len(c.alive) |-> c.list[c.alive[k]]]

-----------------------------------------------------------------------------
(* The frame *)

\* invulnerability, bleed and no-heal timers at the top of the frame
RECURSIVE BleedTicks(_)
BleedTicks(p) ==
    IF p.bleed_tick_accum >= BLEED_CHUNK /\ p.hp > 0
    THEN BleedTicks([p EXCEPT !.bleed_tick_accum = @ - BLEED_CHUNK,
                              !.hp = Max(0, @ - (Max(20, p.bleed_dps) \div 20))])
    ELSE p

BleedTimer(p, dt) ==
    IF p.bleed_time_left > 0
    THEN BleedTicks([p EXCEPT !.bleed_time_left = Max(0, @ - dt),
                              !.bleed_tick_accum = @ + dt])
    ELSE p

NoHealTimer(p, dt) ==
    IF p.no_heal_time_left > 0
    THEN [p EXCEPT !.no_heal_time_left = Max(0, @ - dt)]
    ELSE p

\* timers that count down without the clamp at zero
PlayerTimersRaw(p, dt) ==
    [p EXCEPT !.invuln_timer = @ - dt,
              !.bleed_time_left = IF @ > 0 THEN @ - dt ELSE @,
              !.no_heal_time_left = IF @ > 0 THEN @ - dt ELSE @]

PlayerTimers(p, dt) ==
    NoHealTimer(BleedTimer([p EXCEPT !.invuln_timer = Max(0, @ - dt)], dt), dt)

\* Player.cast_magic: the player afterwards and the projectile (or none)
\* a cast whose damage counts the weapon as the sword's does
cast_magic_armed(p) ==
    IF p.mana < MAGIC_MANA_COST
    THEN [p |-> p, pr |-> <<>>]
    ELSE [p |-> [p EXCEPT !.mana = @ - MAGIC_MANA_COST],
          pr |-> <<NewProjectile(TRUE, SwordDamage(p), "none", 0, 0)>>]

cast_magic(p) ==
    IF p.mana < MAGIC_MANA_COST
    THEN [p |-> p, pr |-> <<>>]
    ELSE [p |-> [p EXCEPT !.mana = @ - MAGIC_MANA_COST],
          pr |-> <<NewProjectile(TRUE, p.mag, "none", 0, 0)>>]

\* Player.dash (the position is not modelled)
dash(p) == IF p.mana < DASH_MANA_COST THEN p ELSE [p EXCEPT !.mana = @ - DASH_MANA_COST]

in_safe_area_setup(w) ==
    [w EXCEPT !.st.in_safe_area = TRUE, !.st.wave = 0,
              !.en = <<>>, !.pr = <<>>,
              !.p = replenish_armor([w.p EXCEPT !.x = 1000 * (WIDTH \div 2 - 16),
                                                !.y = 1000 * (HEIGHT - 120)])]

leave_safe_area(w) ==
    [w EXCEPT !.st.in_safe_area = FALSE, !.st.wave = 1, !.en = <<>>,
              !.st.wave_cooldown = LEAVE_COOLDOWN, !.st.pending_spawn = TRUE]

\* the countdown of the stage-10 delay and the player's timers
Countdown(w, dt) ==
    [w EXCEPT !.st.post_boss_10_delay = IF @ > 0 THEN @ - dt ELSE @,
              !.tr = IF w.st.post_boss_10_delay > 0 /\ w.st.post_boss_10_delay - dt <= 0
                     THEN Say(@, "portal opens") ELSE @,
              !.p = PlayerTimers(@, dt)]

\* left mouse button: the swing and its score
Swing(w, in) ==
    IF in.sword
    THEN [w EXCEPT !.en = sword_attack(w.p, @, in.reach),
                   !.st.score = IF SwordHitAny(w.en, in.reach) THEN @ + 1 ELSE @,
                   !.tr.swordHit = SwordHitAny(w.en, in.reach)]
    ELSE w

\* F key and L key
Cast(w, in) ==
    IF in.cast
    THEN [w EXCEPT !.p = cast_magic(@).p, !.pr = @ \o cast_magic(w.p).pr]
    ELSE w

Dash(w, in) == IF in.dash THEN [w EXCEPT !.p = dash(@)] ELSE w

\* state.player.move(keys) and resolve_entity_collision(state.player, ...):
\* the position is not followed inside a frame
Walk(w) == Step(Step(w, "move"), "collide")

\* the head of the frame with the player's timers after the player's actions
PlayerPhaseLate(w, in) ==
    Step(Countdown(Step(Dash(Step(Cast(Step(Swing(Walk(w), in), "sword"), in),
                                  "magic"), in), "dash"), in.dt), "timers")

\* the head of the frame: delay countdown, player timers, move, sword, magic,
\* dash
PlayerPhase(w, in) ==
    Step(Dash(Step(Cast(Step(Swing(Walk(Step(Countdown(w, in.dt), "timers")), in),
                             "sword"), in), "magic"), in), "dash")

\* SafePhase without the portal delay
SafePhaseAtOnce(w, in) ==
    IF w.st.wave = 0 /\ in.nkey
    THEN [leave_safe_area([w EXCEPT !.st.stage_start_score = w.st.score])
             EXCEPT !.tr = [@ EXCEPT !.nkey = TRUE, !.left = TRUE,
                                     !.minions = 0, !.bosses = 0]]
    ELSE [w EXCEPT !.tr.nkey = in.nkey]

\* the safe-area branch: the N key
SafePhase(w, in) ==
    IF w.st.wave = 0 /\ in.nkey
    THEN IF w.st.stage = SECRET_BOSS_STAGE /\ w.st.post_boss_10_delay > 0
         THEN [w EXCEPT !.tr = [Say(@, "portal still forming") EXCEPT !.nkey = TRUE]]
         ELSE [leave_safe_area([w EXCEPT !.st.stage_start_score = w.st.score])
                  EXCEPT !.tr = [@ EXCEPT !.nkey = TRUE, !.left = TRUE,
                                          !.minions = 0, !.bosses = 0]]
    ELSE [w EXCEPT !.tr.nkey = in.nkey]

\* the enemy pass and state.enemies = alive
Passed(w, c) ==
    [w EXCEPT !.en = Alive(c), !.p = c.p, !.pr = c.pr, !.dr = c.dr,
              !.st.score = c.score,
              !.tr = [c.tr EXCEPT !.steps = @ \o <<"enemies", "commit">>,
                                  !.seen = c.seen, !.kept = c.alive, !.hurt = c.hurt,
                                  !.shots = c.shots,
                                  !.commit = [k \in 1..Len(c.alive) |->
                                                 View(c.list[c.alive[k]])],
                                  !.dropped = SubSeq(c.dr, Len(w.dr) + 1, Len(c.dr)),
                                  !.passScore = c.score - w.st.score,
                                  !.passLen = Len(w.en)]]

EnemyPhase(w, in) ==
    Passed(w, EnemyLoop([list |-> w.en, alive |-> <<>>, seen |-> <<>>, hurt |-> <<>>,
                         shots |-> <<>>,
                         p |-> w.p, pr |-> w.pr,
                         dr |-> w.dr, score |-> w.st.score, tr |-> w.tr],
                        1, w.st, in))

\* projectile_hits.  fates[i] is what the geometry decides for projectile i
\* after it moved: "gone" (obstacle or outside the arena), "fly" (meets
\* nothing), "player" (its point is inside the player's rectangle) or
\* "enemy" with the list position of the first living enemy whose rectangle
\* contains it.
\* the first enemy whose rectangle contains the point, living or not
StruckFirst(en, f) ==
    IF f.to = "enemy" THEN f.at
    ELSE IF f.to = "over" /\ f.at # {} THEN CHOOSE k \in f.at : \A j \in f.at : k <= j
    ELSE 0

\* for e in enemies: the first living enemy whose rectangle contains the
\* point (0 if none).  A fate "over" carries the set of list positions whose
\* rectangles contain the point; a fate "enemy" carries the position itself.
Struck(en, f) ==
    IF f.to = "enemy" THEN (IF en[f.at].hp > 0 THEN f.at ELSE 0)
    ELSE IF f.to = "over"
    THEN LET hit == {k \in f.at : en[k].hp > 0}
         IN  IF hit = {} THEN 0 ELSE CHOOSE k \in hit : \A j \in hit : k <= j
    ELSE 0

RECURSIVE ProjLoop(_, _, _, _)
ProjLoop(w, i, fates, kept) ==
    IF i > Len(w.pr) THEN [w EXCEPT !.pr = kept]
    ELSE LET pr == w.pr[i]
             f == fates[i]
         IN  IF f.to = "gone" THEN ProjLoop(w, i + 1, fates, kept)
             ELSE IF pr.from_player
             THEN IF Struck(w.en, f) # 0
                  THEN ProjLoop([w EXCEPT
                           !.en[Struck(w.en, f)] =
                                   [@ EXCEPT !.hp = @ - pr.damage,
                                             !.invuln_timer = INVULN_TIME,
                                             !.since_hit = IF w.en[Struck(w.en, f)].can_heal
                                                           THEN 0 ELSE @,
                                             !.last_hit_by_sword = FALSE]],
                           i + 1, fates, kept)
                  ELSE ProjLoop(w, i + 1, fates, Append(kept, pr))
             ELSE IF f.to = "player" /\ w.p.invuln_timer <= 0
                  THEN ProjLoop([w EXCEPT
                           !.p = ApplyEffect([w.p EXCEPT !.hp = @ - pr.damage,
                                                         !.invuln_timer = INVULN_TIME],
                                             pr.effect, pr.effect_value, pr.effect_duration)],
                           i + 1, fates, kept)
                  ELSE ProjLoop(w, i + 1, fates, Append(kept, pr))

projectile_hits(w, fates) == ProjLoop(w, 1, fates, <<>>)

\* Advance without the branch of the secret stage
AdvancePlain(w) ==
    IF w.st.stage = 10
    THEN [w EXCEPT !.st.post_boss_10_delay = POST_BOSS_10_DELAY,
                   !.st.stage = @ + 1,
                   !.tr = Say(@, "not done yet")]
    ELSE [w EXCEPT !.st.stage = @ + 1]

\* the stage-clear branch of the spawn logic
Advance(w) ==
    IF w.st.stage = 10
    THEN [w EXCEPT !.st.post_boss_10_delay = POST_BOSS_10_DELAY,
                   !.st.stage = @ + 1,
                   !.tr = Say(@, "not done yet")]
    ELSE IF w.st.stage = SECRET_BOSS_STAGE
    THEN [w EXCEPT !.st.new_game_plus = @ + 1,
                   !.st.stage = 1, !.st.wave = 1,
                   !.p = [@ EXCEPT !.weapon_id = "starter", !.armor_id = "none",
                                   !.armor_hits_remaining = 0],
                   !.tr = Say(@, "new game plus")]
    ELSE [w EXCEPT !.st.stage = @ + 1,
                   !.tr = IF w.st.stage + 1 = SECRET_BOSS_STAGE
                          THEN Say(@, "portal opens") ELSE @]

Hub(w) == in_safe_area_setup([w EXCEPT !.p = replenish_armor(@)])

Cleared(w, before) ==
    [w EXCEPT !.tr = [@ EXCEPT !.cleared = TRUE,
                               !.clrBefore = [p |-> before.p, st |-> before.st],
                               !.clrAfter = [p |-> w.p, st |-> w.st]]]

StageClear(w) == Cleared(Hub(Advance(w)), w)

\* a cooldown that never counts down
CoolDownStopped(w, dt) == w

\* the wave cooldown
CoolDown(w, dt) ==
    IF w.st.pending_spawn /\ w.st.wave_cooldown > 0
    THEN [w EXCEPT !.st.wave_cooldown = Max(0, @ - dt)]
    ELSE w

\* the spawn logic with an empty enemy list, while minion waves remain; kind
\* is the minion kind drawn
MinionWave(w, kind) ==
    IF ~w.st.pending_spawn
    THEN [w EXCEPT !.st.pending_spawn = TRUE,
                   !.st.wave_cooldown = WAVE_COOLDOWN,
                   !.p.armor_hits_remaining = get_armor(w.p).hits,
                   !.tr = Say(@, "wave cleared")]
    ELSE IF w.st.wave_cooldown = 0
    THEN [w EXCEPT !.en = Copies(Min(WaveCount(w.st.stage, w.st.wave), MaxSpawn),
                                 spawn_minion(w.st.stage, w.st.new_game_plus, kind)),
                   !.st.wave = @ + 1, !.st.pending_spawn = FALSE,
                   !.tr = [@ EXCEPT !.spawned = "minion", !.minions = @ + 1]]
    ELSE w

\* ... and after the last minion wave
BossWave(w) ==
    IF ~w.st.pending_spawn
    THEN [w EXCEPT !.st.pending_spawn = TRUE,
                   !.st.wave_cooldown = WAVE_COOLDOWN,
                   !.tr = Say(@, "final wave cleared")]
    ELSE IF w.st.wave_cooldown = 0
    THEN [w EXCEPT !.en = spawn_boss(w.st.stage, w.st.new_game_plus),
                   !.st.wave = @ + 1, !.st.pending_spawn = FALSE,
                   !.tr = [@ EXCEPT !.spawned = "boss", !.bosses = @ + 1]]
    ELSE w

\* SpawnLogic with the minion waves counted one short
SpawnLogicShort(w, kind) ==
    IF w.en # <<>> THEN w
    ELSE IF w.st.wave < MINION_WAVES_PER_STAGE THEN MinionWave(w, kind)
    ELSE IF w.st.wave = MINION_WAVES_PER_STAGE + 1 THEN BossWave(w)
    ELSE StageClear(w)

\* the spawn logic
SpawnLogic(w, kind) ==
    IF w.en # <<>> THEN w
    ELSE IF w.st.wave <= MINION_WAVES_PER_STAGE THEN MinionWave(w, kind)
    ELSE IF w.st.wave = MINION_WAVES_PER_STAGE + 1 THEN BossWave(w)
    ELSE StageClear(w)

\* cooldown countdown and spawn logic
Scheduler(w, dt, kind) == SpawnLogic(CoolDown(w, dt), kind)

\* mana regeneration; regen is the outcome of random.random() < 0.02
ManaRegen(w, regen) ==
    IF ~w.st.in_safe_area /\ regen
    THEN [w EXCEPT !.p.mana = Min(w.p.max_mana, @ + 1)]
    ELSE w

\* health regeneration
HpRegen(w, dt) ==
    IF w.st.hp_regen_timer + dt >= HP_REGEN_INTERVAL
    THEN [w EXCEPT !.st.hp_regen_timer = @ + dt - HP_REGEN_INTERVAL,
                   !.p.hp = IF w.p.no_heal_time_left <= 0
                            THEN Min(w.p.max_hp, @ + HP_REGEN_AMOUNT) ELSE @]
    ELSE [w EXCEPT !.st.hp_regen_timer = @ + dt]

Regen(w, dt, regen) == HpRegen(ManaRegen(w, regen), dt)

\* the death check at the end of the frame
Fallen(w, before) ==
    [w EXCEPT !.p.hp = w.p.max_hp, !.p.mana = w.p.max_mana,
              !.tr = [Say(@, "you fell") EXCEPT
                         !.died = TRUE,
                         !.deathBefore = [p |-> before.p, st |-> before.st]]]

\* the death check without the score reset
DeathKeepsScore(w) ==
    IF w.p.hp <= 0
    THEN Fallen(in_safe_area_setup([w EXCEPT !.p.gold = w.p.gold \div 2]), w)
    ELSE w

DeathCheck(w) ==
    IF w.p.hp <= 0
    THEN Fallen(in_safe_area_setup([w EXCEPT !.st.score = w.st.stage_start_score,
                                             !.p.gold = w.p.gold \div 2]), w)
    ELSE w

\* pickups and the death check
Collect(w, touched) ==
    [w EXCEPT !.p = check_pickups(w.p, w.dr, touched).p,
              !.dr = check_pickups(w.p, w.dr, touched).dr]

FrameEnd(w, touched) == Step(DeathCheck(Step(Collect(w, touched), "pickups")), "death")

-----------------------------------------------------------------------------
(* Inputs of a frame *)

\* A play style: the frame times the clock delivers, the keys the player
\* uses, what the geometry lets happen and what the random draws return.
\*   reach, touch : which list positions a swing reaches / touch the player
\*   fates        : what a moving projectile may meet
\*   rolls, heal  : random.randint at an end of its range, the heal-drop draw
\*   regen        : the mana-regeneration draw
\*   pick         : whether the player stands on the drops
AnyInput ==
    [ dts |-> {10, 20}, reach |-> {"none", "first", "last", "all"},
      cast |-> BOOLEAN, dash |-> BOOLEAN, nkey |-> BOOLEAN,
      touch |-> {"none", "first", "last"}, rolls |-> {"lo", "hi"}, heal |-> BOOLEAN,
      fates |-> {"fly", "gone", "player", "first", "last"},
      regen |-> BOOLEAN, pick |-> BOOLEAN,
      clock |-> FALSE ]

\* the list positions a mode names in a list of n enemies
Positions(mode, n) ==
    CASE mode = "first" -> {1} \cap (1..n)
      [] mode = "last"  -> {n} \cap (1..n)
      [] mode = "all"   -> 1..n
      [] OTHER          -> {}

ReachSets(modes, n) == {Positions(m, n) : m \in modes}

\* the minion kinds the draws of a stage produce
KindsDrawn(stage) ==
    LET L == EnemyList(stage)
    IN  {L[i] : i \in {j \in 1..Len(L) : j >= 2 /\ j <= 1 + MaxKinds}}

Living(en) == {i \in 1..Len(en) : en[i].hp > 0}

Fate(to, at) == [to |-> to, at |-> at]

FatesOf(tags, pr, en) ==
    IF pr.from_player
    THEN {Fate(t, 0) : t \in tags \cap {"fly", "gone"}}
            \cup {Fate("enemy", k) :
                    k \in Living(en) \cap UNION {Positions(t, Len(en)) : t \in tags}}
    ELSE {Fate(t, 0) : t \in tags \cap {"fly", "gone", "player"}}

FateMaps(tags, prs, en) ==
    LET All == UNION {FatesOf(tags, prs[i], en) : i \in 1..Len(prs)}
    IN  {f \in [1..Len(prs) -> All] :
            \A i \in 1..Len(prs) : f[i] \in FatesOf(tags, prs[i], en)}

\* a minion kind is drawn only by a spawn: a threshold that may fire, or a
\* wave, which needs the list empty after the pass
NeedsKind(en) ==
    \/ \A i \in 1..Len(en) : en[i].hp <= 0
    \/ \E i \in 1..Len(en) : \E t \in DOMAIN en[i].summon_thresholds :
            ~en[i].summon_thresholds[t]

\* a draw that matters only when cond holds
Drawn(S, cond, default) == IF cond THEN S ELSE {default}

World == [st |-> state, p |-> player, en |-> enemies, pr |-> projectiles,
          dr |-> drops,
          tr |-> [NoTrace EXCEPT !.op = "frame", !.minions = ev.minions,
                                 !.bosses = ev.bosses]]

Becomes(w) ==
    /\ state' = w.st
    /\ player' = w.p
    /\ enemies' = w.en
    /\ projectiles' = w.pr
    /\ drops' = w.dr
    /\ ev' = w.tr

Within(w) ==
    /\ Len(w.en) <= MaxEnemies
    /\ Len(w.pr) <= MaxProjectiles
    /\ Len(w.dr) <= MaxDrops
    /\ w.st.new_game_plus <= MaxNG

Commit(w) == Within(w) /\ Becomes(w)

\* the end of the frame: regeneration, pickups, death check
Finish(P, dt, w) ==
    \E regen \in Drawn(P.regen, w.p.mana < w.p.max_mana /\ ~w.st.in_safe_area, FALSE),
       touched \in Drawn(P.pick, w.dr # <<>>, FALSE) :
        Commit(FrameEnd(Step(Regen([w EXCEPT !.tr.hpHit = w.p.hp], dt, regen), "regen"),
                        touched))

\* the combat branch after the enemy pass
AfterEnemies(P, dt, kind, w) ==
    \E fates \in FateMaps(P.fates, w.pr, w.en) :
        Finish(P, dt, Step(Scheduler(Step(projectile_hits(w, fates), "projectiles"),
                                     dt, kind), "scheduler"))

\* the two branches of the frame after the player's own moves
Branch(P, dt, w) ==
    IF w.st.in_safe_area
    THEN \E nkey \in P.nkey :
            Finish(P, dt, Step(SafePhase(w, [nkey |-> nkey]), "hub"))
    ELSE \E touch \in Drawn(ReachSets(P.touch, Len(w.en)), w.p.invuln_timer <= 0, {}),
            kind \in Drawn(KindsDrawn(w.st.stage), NeedsKind(w.en),
                           EnemyList(w.st.stage)[2]),
            roll \in Drawn(P.rolls, \E i \in 1..Len(w.en) : w.en[i].hp <= 0, "lo"),
            heal \in Drawn(P.heal, \E i \in 1..Len(w.en) : w.en[i].hp <= 0, FALSE) :
            AfterEnemies(P, dt, kind,
                         EnemyPhase(w, [dt |-> dt, touch |-> touch, kind |-> kind,
                                        roll |-> roll, heal |-> heal]))

\* One unpaused iteration of the main loop, from the delay countdown to the
\* death check, under the play style P.
\* if not state.in_safe_area: state.play_time += dt
Timed(P, dt) ==
    IF P.clock /\ ~state.in_safe_area
    THEN [World EXCEPT !.st.play_time = @ + dt]
    ELSE World

FrameOf(P) ==
    /\ ~state.in_main_menu
    /\ state.score < MaxScore
    /\ P.clock => state.play_time < MaxPlayTime
    /\ \E dt \in P.dts,
          reach \in ReachSets(P.reach, Len(enemies)),
          cast \in Drawn(P.cast, player.mana >= MAGIC_MANA_COST, FALSE),
          dsh \in Drawn(P.dash, player.mana >= DASH_MANA_COST, FALSE) :
        Branch(P, dt, PlayerPhase(Timed(P, dt), [dt |-> dt, sword |-> reach # {},
                                          reach |-> reach, cast |-> cast, dash |-> dsh]))

Frame == FrameOf(AnyInput)

-----------------------------------------------------------------------------
(* Menu and merchant handlers *)

\* a lookup that never finds the key
GetNothing(d, k, default) == default

Get(d, k, default) == IF k \in DOMAIN d THEN d[k] ELSE default

\* GameState.deserialize.  Volumes are in hundredths, play_time in ticks.
deserialize(st, p, data) ==
    LET pd == Get(data, "player", [none |-> 0])
        settings == Get(data, "settings", [none |-> 0])
    IN  [ st |-> [st EXCEPT
                    !.stage = Get(data, "stage", 1),
                    !.wave = Get(data, "wave", 1),
                    !.in_safe_area = Get(data, "in_safe_area", FALSE),
                    !.score = Get(data, "score", 0),
                    !.stage_start_score = Get(data, "stage_start_score", 0),
                    !.play_time = Get(data, "play_time", 0),
                    !.new_game_plus = Get(data, "new_game_plus", 0),
                    !.post_boss_10_delay = Get(data, "post_boss_10_delay", 0),
                    !.volume = Get(settings, "volume", 60),
                    !.fullscreen = Get(settings, "fullscreen", FALSE),
                    !.sound_enabled = Get(settings, "sound_enabled", TRUE),
                    !.music_enabled = Get(settings, "music_enabled", TRUE),
                    !.music_volume = Get(settings, "music_volume", 50),
                    !.sfx_volume = Get(settings, "sfx_volume", 70)],
          p |-> [p EXCEPT
                    !.x = Get(pd, "x", p.x),
                    !.y = Get(pd, "y", p.y),
                    !.hp = Get(pd, "hp", p.hp),
                    !.max_hp = Get(pd, "max_hp", p.max_hp),
                    !.mana = Get(pd, "mana", p.mana),
                    !.max_mana = Get(pd, "max_mana", p.max_mana),
                    !.atk = Get(pd, "atk", p.atk),
                    !.mag = Get(pd, "mag", p.mag),
                    !.spd = Get(pd, "spd", p.spd),
                    !.gold = Get(pd, "gold", p.gold),
                    !.exp = Get(pd, "exp", p.exp),
                    !.level = Get(pd, "level", p.level),
                    !.weapon_id = Get(pd, "weapon_id", p.weapon_id),
                    !.armor_id = Get(pd, "armor_id", p.armor_id),
                    !.armor_hits_remaining = Get(pd, "armor_hits", p.armor_hits_remaining)] ]

\* GameState.serialize
serialize(st, p) ==
    [ stage |-> st.stage, wave |-> st.wave, in_safe_area |-> st.in_safe_area,
      score |-> st.score, stage_start_score |-> st.stage_start_score,
      play_time |-> st.play_time,
      new_game_plus |-> st.new_game_plus,
      post_boss_10_delay |-> st.post_boss_10_delay,
      settings |-> [ volume |-> st.volume, fullscreen |-> st.fullscreen,
                     sound_enabled |-> st.sound_enabled,
                     music_enabled |-> st.music_enabled,
                     music_volume |-> st.music_volume, sfx_volume |-> st.sfx_volume ],
      player |-> [ x |-> p.x, y |-> p.y, hp |-> p.hp, max_hp |-> p.max_hp, mana |-> p.mana,
                   max_mana |-> p.max_mana, atk |-> p.atk, mag |-> p.mag,
                   spd |-> p.spd, gold |-> p.gold, exp |-> p.exp, level |-> p.level,
                   weapon_id |-> p.weapon_id, armor_id |-> p.armor_id,
                   armor_hits |-> p.armor_hits_remaining ] ]

\* The hero of a save file: the Player fields a played game has moved.
Hero(atk, mag, mana, weapon_id, armor_id, gold, exp, level) ==
    [PlayerInit EXCEPT !.atk = atk, !.mag = mag, !.mana = mana,
                       !.weapon_id = weapon_id, !.armor_id = armor_id,
                       !.armor_hits_remaining = ARMORS[armor_id].hits,
                       !.gold = gold, !.exp = exp, !.level = level]

\* A save file written in the hub of a stage, and one written in the arena
\* after the last minion wave was cleared.
HubSave(stage, score, hero) ==
    serialize([StateInit EXCEPT !.stage = stage, !.wave = 0, !.in_safe_area = TRUE,
                                !.score = score, !.stage_start_score = score],
              hero)

ArenaSave(stage, score, hero) ==
    serialize([StateInit EXCEPT !.stage = stage, !.wave = MINION_WAVES_PER_STAGE + 1,
                                !.in_safe_area = FALSE,
                                !.score = score + 4 * MINION_WAVES_PER_STAGE,
                                !.stage_start_score = score],
              hero)

\* Two heroes.  The champion's sword takes 750 a swing, the duelist's 520;
\* both spells take 100 and both have mana for two casts.
Champion == Hero(100, 100, 2 * MAGIC_MANA_COST, "god_sword", "light", 451, 7, 3)
Duelist == Hero(54, 100, 2 * MAGIC_MANA_COST, "god_sword", "none", 451, 7, 3)

SavePayloads ==
    {HubSave(s, 0, h) : s \in {1, 10, SECRET_BOSS_STAGE}, h \in {Champion, Duelist}}
        \cup {ArenaSave(s, 0, h) : s \in {1, 10, SECRET_BOSS_STAGE}, h \in {Champion, Duelist}}

\* main menu, "New Game"
NewGame ==
    /\ state.in_main_menu
    /\ LET w == in_safe_area_setup(
                  [World EXCEPT !.st.in_main_menu = FALSE, !.p = PlayerInit,
                                !.en = <<>>, !.pr = <<>>,
                                !.tr = [NoTrace EXCEPT !.op = "new_game"]])
       IN  Becomes(w)

\* main menu, "Continue": the save file is read and deserialized
ContinueFrom(saves) ==
    /\ state.in_main_menu
    /\ \E data \in saves :
          LET l == deserialize(state, player, data)
          IN  Becomes([World EXCEPT !.st = [l.st EXCEPT !.in_main_menu = FALSE],
                                    !.p = l.p,
                                    !.tr = [NoTrace EXCEPT !.op = "continue", !.arg = data]])

try_buy_weapon(p, key) ==
    IF key \notin DOMAIN WEAPONS THEN p
    ELSE IF p.gold < WEAPONS[key].price THEN p
    ELSE [p EXCEPT !.gold = @ - WEAPONS[key].price, !.weapon_id = key]

try_buy_armor(p, key) ==
    IF key \notin DOMAIN ARMORS THEN p
    ELSE IF p.gold < ARMORS[key].price THEN p
    ELSE [p EXCEPT !.gold = @ - ARMORS[key].price, !.armor_id = key,
                   !.armor_hits_remaining = ARMORS[key].hits]

NextOf(seq, x) == seq[(IndexOf(seq, x) % Len(seq)) + 1]

\* KEYDOWN Q at the merchant
BuyWeapon ==
    /\ state.in_safe_area
    /\ ~has_god_equipment(player)
    /\ LET q == try_buy_weapon(player, NextOf(ORDERED_WEAPONS, player.weapon_id))
       IN  Becomes([World EXCEPT !.p = q,
                        !.tr = [NoTrace EXCEPT !.op = "buy_weapon",
                                   !.msgs = IF q = player THEN {"not enough gold"}
                                            ELSE {"bought"},
                                   !.minions = ev.minions, !.bosses = ev.bosses]])

\* KEYDOWN E at the merchant
BuyArmor ==
    /\ state.in_safe_area
    /\ ~has_god_equipment(player)
    /\ LET q == try_buy_armor(player, NextOf(ORDERED_ARMORS, player.armor_id))
       IN  Becomes([World EXCEPT !.p = q,
                        !.tr = [NoTrace EXCEPT !.op = "buy_armor",
                                   !.msgs = IF q = player THEN {"not enough gold"}
                                            ELSE {"bought"},
                                   !.minions = ev.minions, !.bosses = ev.bosses]])

-----------------------------------------------------------------------------
(* Specification *)

Continue == ContinueFrom(SavePayloads)

Init ==
    /\ state = StateInit
    /\ player = PlayerInit
    /\ enemies = <<>>
    /\ projectiles = <<>>
    /\ drops = <<>>
    /\ ev = NoTrace

Next == NewGame \/ Continue \/ Frame \/ BuyWeapon \/ BuyArmor

Spec == Init /\ [][Next]_vars

-----------------------------------------------------------------------------
(* The campaign: a strong hero walks through the stages.  The player swings
   at everything or at nothing, collects every drop and is never touched;
   enemy projectiles leave the arena. *)

Campaigner ==
    [ dts |-> {10, 20}, reach |-> {"none", "all"},
      cast |-> {FALSE}, dash |-> {FALSE}, nkey |-> BOOLEAN,
      touch |-> {"none"}, rolls |-> {"lo"}, heal |-> {FALSE},
      fates |-> {"gone"}, regen |-> {FALSE}, pick |-> {TRUE},
      clock |-> FALSE ]

CampaignSaves == {HubSave(s, 0, Champion) : s \in {1, 10, 11}}

ContinueCampaign == ContinueFrom(CampaignSaves)

FrameCampaign == FrameOf(Campaigner)

NextCampaign == ContinueCampaign \/ FrameCampaign

SpecCampaign == Init /\ [][NextCampaign]_vars

-----------------------------------------------------------------------------
(* The boss fights of stages 10 and 11: a hero whose sword takes nine tenths
   of the queen's health and whose spell takes a sixth of it continues in
   the arena after the last minion wave.  The player swings at the first
   enemy, at all or at none, casts at the first enemy, is never touched and
   stays in the hub once the stage is cleared. *)

Fencer ==
    [ dts |-> {20}, reach |-> {"none", "first", "all"},
      cast |-> BOOLEAN, dash |-> {FALSE}, nkey |-> {FALSE},
      touch |-> {"none"}, rolls |-> {"lo"}, heal |-> BOOLEAN,
      fates |-> {"gone", "first"}, regen |-> {FALSE}, pick |-> {TRUE},
      clock |-> FALSE ]

BossSaves == {ArenaSave(10, 100, Champion), ArenaSave(SECRET_BOSS_STAGE, 100, Duelist)}

ContinueBoss == ContinueFrom(BossSaves)

FrameBoss == FrameOf(Fencer)

NextBoss == ContinueBoss \/ FrameBoss

SpecBoss == Init /\ [][NextBoss]_vars

-----------------------------------------------------------------------------
(* The fall: a weak hero in the arena.  The player swings at the first enemy
   or at nothing, may be touched by the first enemy and hit by projectiles,
   and may leave the hub again. *)

Faller ==
    [ dts |-> {20}, reach |-> {"none", "first"},
      cast |-> {FALSE}, dash |-> {FALSE}, nkey |-> {FALSE},
      touch |-> {"none", "first"}, rolls |-> {"lo"}, heal |-> {FALSE},
      fates |-> {"gone", "player"}, regen |-> {FALSE}, pick |-> {TRUE},
      clock |-> FALSE ]

FallSaves == {ArenaSave(SECRET_BOSS_STAGE, 100, Duelist)}

ContinueFall == ContinueFrom(FallSaves)

FrameFall == FrameOf(Faller)

NextFall == ContinueFall \/ FrameFall

SpecFall == Init /\ [][NextFall]_vars

-----------------------------------------------------------------------------
(* The hub: the player stays in the safe area, casts, dashes and buys. *)

Shopper ==
    [ dts |-> {20}, reach |-> {"none"},
      cast |-> BOOLEAN, dash |-> BOOLEAN, nkey |-> {FALSE},
      touch |-> {"none"}, rolls |-> {"lo"}, heal |-> {FALSE},
      fates |-> {"gone"}, regen |-> {FALSE}, pick |-> {TRUE},
      clock |-> FALSE ]

HubSaves == {HubSave(s, 0, h) : s \in {1, SECRET_BOSS_STAGE}, h \in {Champion, Duelist}}

ContinueHub == ContinueFrom(HubSaves)

FrameHub == FrameOf(Shopper)

NextHub == NewGame \/ ContinueHub \/ FrameHub \/ BuyWeapon \/ BuyArmor

SpecHub == Init /\ [][NextHub]_vars

-----------------------------------------------------------------------------
(* Claims about the campaign *)

\* the Player fields a stage clear or a death leaves alone
Build(p) == <<p.level, p.exp, p.atk, p.mag, p.spd, p.max_hp, p.max_mana>>

\* C1: once the hub is left, a stage runs exactly MINION_WAVES_PER_STAGE
\* minion waves and then exactly one boss encounter; every spawn happens in a
\* frame whose enemy list is empty after the pass and moves the wave counter
\* by one; the stage is cleared only after the boss was spawned and the list
\* is empty again; a stage other than the secret one is followed by stage + 1.
C1_WaveSequence ==
    /\ ev.spawned = "minion" =>
          /\ ev.commit = <<>>
          /\ ev.bosses = 0
          /\ ev.minions \in 1..MINION_WAVES_PER_STAGE
          /\ state.wave = ev.minions + 1
          /\ enemies # <<>>
    /\ ev.spawned = "boss" =>
          /\ ev.commit = <<>>
          /\ ev.minions = MINION_WAVES_PER_STAGE
          /\ ev.bosses = 1
          /\ state.wave = MINION_WAVES_PER_STAGE + 2
          /\ enemies # <<>>
    /\ ev.cleared =>
          /\ ev.commit = <<>>
          /\ ev.spawned = "none"
          /\ ev.minions = MINION_WAVES_PER_STAGE
          /\ ev.bosses = 1
          /\ ev.clrBefore.st.stage # SECRET_BOSS_STAGE
                => state.stage = ev.clrBefore.st.stage + 1

\* a stage was walked from the hub to its clear
C1_Witness ==
    /\ ev.cleared
    /\ ev.clrBefore.st.stage = 1
    /\ state.stage = 2
    /\ ev.minions = MINION_WAVES_PER_STAGE
    /\ ev.bosses = 1

\* C7: clearing the secret stage starts New Game Plus: the counter goes up
\* by one, the stage is 1, the weapon is the starter, the armor is none with
\* no charges, the hub is entered with wave 0, and level, stats, gold and exp
\* are as they were; the stage stays within 1..SECRET_BOSS_STAGE.
C7_NewGamePlus ==
    /\ state.stage \in 1..SECRET_BOSS_STAGE
    /\ (ev.cleared /\ ev.clrBefore.st.stage = SECRET_BOSS_STAGE) =>
          /\ ev.clrAfter.st.new_game_plus = ev.clrBefore.st.new_game_plus + 1
          /\ ev.clrAfter.st.stage = 1
          /\ ev.clrAfter.st.in_safe_area
          /\ ev.clrAfter.st.wave = 0
          /\ ev.clrAfter.p.weapon_id = "starter"
          /\ ev.clrAfter.p.armor_id = "none"
          /\ ev.clrAfter.p.armor_hits_remaining = 0
          /\ Build(ev.clrAfter.p) = Build(ev.clrBefore.p)
          /\ ev.clrAfter.p.gold = ev.clrBefore.p.gold
          /\ state.stage = 1 /\ state.in_safe_area /\ state.wave = 0
          /\ enemies = <<>>

\* the secret stage was cleared by a hero who wore bought equipment
C7_Witness ==
    /\ ev.cleared
    /\ ev.clrBefore.st.stage = SECRET_BOSS_STAGE
    /\ ev.clrBefore.p.weapon_id = "god_sword"
    /\ ev.clrBefore.p.armor_id = "light"
    /\ ev.clrBefore.p.gold > 0
    /\ state.new_game_plus = 1

\* C8: clearing stage 10 sets the portal delay; N is honoured only in the hub
\* with wave 0; in the hub of the secret stage N does not leave while the
\* delay is positive (a message is shown) and leaves once it is not; the
\* secret stage is never outside the hub while the delay is positive.
C8_Step ==
    /\ (ev'.cleared /\ ev'.clrBefore.st.stage = 10) =>
          /\ ev'.clrAfter.st.post_boss_10_delay = POST_BOSS_10_DELAY
          /\ ev'.clrAfter.st.stage = SECRET_BOSS_STAGE
    /\ (state'.stage = SECRET_BOSS_STAGE /\ state'.post_boss_10_delay > 0)
          => state'.in_safe_area
    /\ ev'.left => (state.in_safe_area /\ state.wave = 0 /\ ev'.nkey)
    /\ (ev'.op = "frame" /\ ev'.nkey /\ state.in_safe_area /\ state.wave = 0
           /\ state.stage = SECRET_BOSS_STAGE) =>
          IF state'.post_boss_10_delay > 0
          THEN ~ev'.left /\ state'.in_safe_area /\ "portal still forming" \in ev'.msgs
          ELSE ev'.left /\ ~state'.in_safe_area /\ state'.wave = 1

C8_PortalDelay == [][C8_Step]_vars

\* N was pressed in the hub of the secret stage while the portal was forming
C8_Witness ==
    /\ state.stage = SECRET_BOSS_STAGE
    /\ state.post_boss_10_delay > 0
    /\ state.post_boss_10_delay < POST_BOSS_10_DELAY
    /\ ev.nkey
    /\ "portal still forming" \in ev.msgs

-----------------------------------------------------------------------------
(* Claims about the enemy pass, checked on the boss fights *)

\* the positions of the pass that were appended to alive
KeptSet == {ev.kept[j] : j \in DOMAIN ev.kept}

PosOf(k) == CHOOSE j \in DOMAIN ev.kept : ev.kept[j] = k

\* the two exceptions, in the words of the specification
FirstDeath(v) == v.name = "Zasu (Demon King)" /\ ~v.revived_once

ProjectileKill(v) ==
    v.name = SECRET_BOSS /\ v.must_die_by_sword /\ ~v.last_hit_by_sword

RemovedSet ==
    {k \in DOMAIN ev.seen :
        ev.seen[k].hp <= 0 /\ ~FirstDeath(ev.seen[k]) /\ ~ProjectileKill(ev.seen[k])}

DropsOf(kind) == Cardinality({j \in DOMAIN ev.dropped : ev.dropped[j].kind = kind})

PassRan == ev.op = "frame" /\ ev.seen # <<>>

\* C2: an enemy the pass finds at hp <= 0 with no revive or sword-gate
\* exception is not kept and is absent from the list after the frame; every
\* other enemy is kept; the pass produces one gold drop, one experience drop,
\* at most one heal drop and one kill-score increment per removed enemy, and
\* none for an enemy that is revived or gated.
C2_RemovedOnce ==
    PassRan =>
        /\ \A k \in RemovedSet : k \notin KeptSet
        /\ \A k \in DOMAIN ev.seen \ RemovedSet : k \in KeptSet
        /\ \A i, j \in DOMAIN ev.kept : i < j => ev.kept[i] < ev.kept[j]
        /\ DropsOf("gold") = Cardinality(RemovedSet)
        /\ DropsOf("exp") = Cardinality(RemovedSet)
        /\ DropsOf("heal") <= Cardinality(RemovedSet)
        /\ Len(ev.dropped) = DropsOf("gold") + DropsOf("exp") + DropsOf("heal")
        /\ ev.passScore \in {3 * Cardinality(RemovedSet), 10 * Cardinality(RemovedSet)}
        /\ IF ev.died THEN enemies = <<>>
           ELSE IF ev.spawned # "none" \/ ev.cleared THEN ev.kept = <<>>
           ELSE /\ Len(enemies) = Len(ev.kept)
                /\ \A j \in DOMAIN ev.kept : enemies[j].name = ev.seen[ev.kept[j]].name

\* a pass that removes several enemies while it keeps another, with heal drops
C2_Witness ==
    /\ PassRan
    /\ Cardinality(RemovedSet) >= 2
    /\ KeptSet # {}
    /\ DropsOf("heal") >= 1

\* C3: each summon threshold fires at most once, in the first pass that sees
\* hp <= max_hp * threshold; each firing adds exactly 3 minions, which the
\* same pass appends to alive, so that they are in the list the pass leaves
\* (and in the list at the end of the frame, unless the death check or a
\* stage clear empties it); four thresholds crossed in one step fire in the
\* same frame (12 minions) and a later frame with the flags set adds none.
C3_Step ==
    (ev'.op = "frame" /\ ev'.seen # <<>>) =>
        /\ ev'.passLen = Len(enemies)
        /\ \A k \in 1..Len(enemies) :
              /\ DOMAIN ev'.seen[k].summon_thresholds = DOMAIN enemies[k].summon_thresholds
              /\ \A t \in DOMAIN enemies[k].summon_thresholds :
                    /\ enemies[k].summon_thresholds[t] => ev'.seen[k].summon_thresholds[t]
                    /\ (~enemies[k].summon_thresholds[t] /\ ev'.seen[k].summon_thresholds[t])
                          => ev'.seen[k].hp * 10 <= ev'.seen[k].max_hp * t
                    /\ ~ev'.seen[k].summon_thresholds[t]
                          => ev'.seen[k].hp * 10 > ev'.seen[k].max_hp * t
        /\ Len(ev'.seen) = Len(enemies)
              + 3 * Cardinality({<<k, t>> \in (1..Len(enemies)) \X {8, 6, 4, 2} :
                        /\ t \in DOMAIN enemies[k].summon_thresholds
                        /\ ~enemies[k].summon_thresholds[t]
                        /\ ev'.seen[k].summon_thresholds[t]})
        /\ \A k \in (Len(enemies) + 1)..Len(ev'.seen) :
              /\ \E j \in DOMAIN ev'.kept : ev'.kept[j] = k
              /\ ev'.seen[k].name \in KindsDrawn(state.stage)
              /\ DOMAIN ev'.seen[k].summon_thresholds = {}
        /\ (~ev'.died /\ ev'.spawned = "none" /\ ~ev'.cleared)
              => /\ Len(enemies') = Len(ev'.kept)
                 /\ \A j \in DOMAIN ev'.kept : enemies'[j].name = ev'.seen[ev'.kept[j]].name

C3_SummonThresholds == [][C3_Step]_vars

\* a boss alone in the arena drops below all four thresholds in one step and
\* survives: twelve minions join the list in that frame
C3_Witness ==
    /\ PassRan
    /\ ev.passLen = 1
    /\ Len(ev.seen) = 13
    /\ ev.seen[1].hp > 0
    /\ \A t \in {8, 6, 4, 2} : ev.seen[1].summon_thresholds[t]
    /\ Len(enemies) = 13

\* C4: when the pass finds the sword-gated secret boss at hp <= 0 and the
\* most recent hit on it was a projectile, the boss stays in the list with
\* hp = 1 and a message is emitted; it is removed only by a pass that finds
\* hp <= 0 with the most recent hit a melee hit.  The most recent hit is
\* melee when the frame's swing lowered its hp, a projectile when a player
\* projectile lowered it after the pass.  The list is the one the pass
\* leaves; the death check at the end of the frame may still empty it.
C4_Step ==
    (ev'.op = "frame" /\ ev'.seen # <<>>) =>
        \A k \in 1..Len(enemies) :
            enemies[k].name = SECRET_BOSS =>
                /\ ev'.seen[k].must_die_by_sword
                /\ ev'.seen[k].hp < enemies[k].hp => ev'.seen[k].last_hit_by_sword
                /\ ev'.seen[k].hp >= enemies[k].hp
                      => ev'.seen[k].last_hit_by_sword = enemies[k].last_hit_by_sword
                /\ (ev'.seen[k].hp <= 0 /\ ~ev'.seen[k].last_hit_by_sword)
                      => \E j \in DOMAIN ev'.kept :
                            /\ ev'.kept[j] = k
                            /\ ev'.commit[j].hp = 1
                            /\ "sword only" \in ev'.msgs
                            /\ ~ev'.died => /\ enemies'[j].name = SECRET_BOSS
                                            /\ enemies'[j].hp <= 1
                /\ (ev'.seen[k].hp <= 0 /\ ev'.seen[k].last_hit_by_sword)
                      => /\ \A j \in DOMAIN ev'.kept : ev'.kept[j] # k
                         /\ \A j \in DOMAIN enemies' : enemies'[j].name # SECRET_BOSS
                /\ (\A j \in DOMAIN ev'.kept : ev'.kept[j] # k)
                      => ev'.seen[k].hp <= 0 /\ ev'.seen[k].last_hit_by_sword
                /\ \A j \in DOMAIN ev'.kept :
                      (ev'.kept[j] = k /\ ~ev'.died) =>
                          IF enemies'[j].hp < ev'.commit[j].hp
                          THEN ~enemies'[j].last_hit_by_sword
                          ELSE enemies'[j].last_hit_by_sword = ev'.commit[j].last_hit_by_sword

C4_SwordGate == [][C4_Step]_vars

\* the pass found the secret boss at hp <= 0 after a projectile and kept it
C4_Witness ==
    /\ PassRan
    /\ \E k \in KeptSet :
          /\ ev.seen[k].hp <= 0
          /\ ProjectileKill(ev.seen[k])
          /\ ev.commit[PosOf(k)].hp = 1
    /\ "sword only" \in ev.msgs

\* C5: the first pass that finds the revive-once boss at hp <= 0 sets hp to
\* floor(0.75 * max_hp), damage to floor(damage * 1.2), adds 0.3 to speed,
\* keeps it and grants nothing; the next pass that finds it at hp <= 0 removes
\* it with one grant; it never revives a second time.
C5_Step ==
    (ev'.op = "frame" /\ ev'.seen # <<>>) =>
        \A k \in 1..Len(enemies) :
            enemies[k].name = "Zasu (Demon King)" =>
                /\ enemies[k].revived_once => ev'.seen[k].revived_once
                /\ (ev'.seen[k].hp <= 0 /\ ~enemies[k].revived_once)
                      => /\ \E j \in DOMAIN ev'.kept :
                               /\ ev'.kept[j] = k
                               /\ ev'.commit[j].hp = (3 * ev'.seen[k].max_hp) \div 4
                               /\ ev'.commit[j].damage = (12 * ev'.seen[k].damage) \div 10
                               /\ ev'.commit[j].speed = ev'.seen[k].speed + 300
                               /\ ev'.commit[j].max_hp = ev'.seen[k].max_hp
                               /\ ev'.commit[j].revived_once
                         /\ k \notin RemovedSet'
                         /\ DropsOf("gold")' = Cardinality(RemovedSet')
                         /\ DropsOf("exp")' = Cardinality(RemovedSet')
                /\ (ev'.seen[k].hp <= 0 /\ enemies[k].revived_once)
                      => /\ \A j \in DOMAIN ev'.kept : ev'.kept[j] # k
                         /\ \A j \in DOMAIN enemies' : enemies'[j].name # "Zasu (Demon King)"
                         /\ k \in RemovedSet'
                         /\ DropsOf("gold")' = Cardinality(RemovedSet')
                         /\ DropsOf("exp")' = Cardinality(RemovedSet')
                         /\ ev'.passScore >= 3
                /\ ev'.seen[k].hp > 0
                      => \E j \in DOMAIN ev'.kept :
                            /\ ev'.kept[j] = k
                            /\ ev'.commit[j] = ev'.seen[k]

C5_ReviveOnce == [][C5_Step]_vars

\* the second death: the pass removed the boss it had revived before
C5_Witness ==
    /\ PassRan
    /\ \E k \in RemovedSet :
          /\ ev.seen[k].name = "Zasu (Demon King)"
          /\ ev.seen[k].revived_once
          /\ ev.seen[k].max_hp = 850
          /\ ev.seen[k].damage = 26

-----------------------------------------------------------------------------
(* Claims about the death check, the hub and the hit points *)

\* C6: when the death check finds player hp <= 0 the game is back in Safe
\* (wave 0, enemy and projectile lists empty) with hp = max_hp, mana =
\* max_mana, score = the score recorded at the start of the stage and gold
\* halved (rounded down); stage, NG+ counter, level, experience, stats,
\* weapon and armor are as they were before the check.
C6_DeathReset ==
    /\ ev.died =>
          /\ ev.deathBefore.p.hp <= 0
          /\ state.in_safe_area /\ state.wave = 0
          /\ enemies = <<>> /\ projectiles = <<>>
          /\ player.hp = player.max_hp /\ player.mana = player.max_mana
          /\ state.score = ev.deathBefore.st.stage_start_score
          /\ state.stage_start_score = ev.deathBefore.st.stage_start_score
          /\ player.gold = ev.deathBefore.p.gold \div 2
          /\ state.stage = ev.deathBefore.st.stage
          /\ state.new_game_plus = ev.deathBefore.st.new_game_plus
          /\ Build(player) = Build(ev.deathBefore.p)
          /\ player.weapon_id = ev.deathBefore.p.weapon_id
          /\ player.armor_id = ev.deathBefore.p.armor_id
    /\ (ev.op = "frame" /\ ~ev.died) => player.hp > 0

\* a death in the arena with an odd purse and score earned in the stage
C6_Witness ==
    /\ ev.died
    /\ ev.deathBefore.p.gold % 2 = 1
    /\ ev.deathBefore.st.score > ev.deathBefore.st.stage_start_score
    /\ ~ev.deathBefore.st.in_safe_area
    /\ ev.deathBefore.p.hp < 0

\* C9: whenever the scheduler is in Safe, the wave counter is 0 and the enemy
\* and projectile lists are empty, whatever the player does in the hub.
C9_SafeIsEmpty ==
    state.in_safe_area => state.wave = 0 /\ enemies = <<>> /\ projectiles = <<>>

\* C10: the hp of the player and of every enemy in the list is >= 0, and so
\* is every invulnerability timer.
C10_NonNegative ==
    /\ player.hp >= 0 /\ player.invuln_timer >= 0
    /\ \A i \in DOMAIN enemies : enemies[i].hp >= 0 /\ enemies[i].invuln_timer >= 0

-----------------------------------------------------------------------------
(* Operations run on their own: the arguments are drawn by the initial
   predicate and the action applies the operation once. *)

Blank == [NoTrace EXCEPT !.op = "input"]

Quiet == state = StateInit /\ projectiles = <<>> /\ drops = <<>>

\* --- Player.sword_attack

AttackValues == {0, 1, 8, 54, 100}

Offsets == {<<0, 0>>, <<60, 80>>, <<62, 80>>, <<96, 128>>, <<-120, 0>>, <<0, 400>>}

Targets == {[EnemyBase EXCEPT !.name = "Imp", !.hp = h, !.max_hp = 2000] : h \in {-3, 0, 30, 2000}}

InitSword ==
    /\ Quiet
    /\ player \in {[PlayerInit EXCEPT !.atk = a, !.weapon_id = w] :
                      a \in AttackValues, w \in DOMAIN WEAPONS}
    /\ enemies \in [1..2 -> Targets]
    /\ \E at \in [1..2 -> Offsets] : ev = [Blank EXCEPT !.arg = at]

SwordAttack ==
    /\ ev.op = "input"
    /\ enemies' = sword_attack(player, enemies, InRange(player, ev.arg))
    /\ ev' = [ev EXCEPT !.op = "sword_attack",
                        !.swordHit = SwordHitAny(enemies, InRange(player, ev.arg))]
    /\ UNCHANGED <<state, player, projectiles, drops>>

SpecSword == InitSword /\ [][SwordAttack]_vars

\* floor(max(1, A + W.flat_bonus) * W.multiplier), in the words of the
\* specification; the catalog gives bonus and multiplier in tenths
MeleeDamage(atk, weapon_id) ==
    LET x == Max(10, 10 * atk + WEAPONS[weapon_id].dmg10) * WEAPONS[weapon_id].mult10
    IN  CHOOSE d \in 0..1000 : 100 * d <= x /\ x < 100 * (d + 1)

Near(at, weapon_id) ==
    at[1] * at[1] + at[2] * at[2]
        <= (2 * (SWORD_RANGE + WEAPONS[weapon_id].range))
             * (2 * (SWORD_RANGE + WEAPONS[weapon_id].range))

\* C11: sword_attack takes floor(max(1, atk + weapon.dmg) * weapon.mult) hp
\* from every living enemy whose centre is within BASE_SWORD_RANGE +
\* weapon.range of the player's centre, marks its last hit as melee, and
\* changes no other enemy; attack 8 with bonus 3 and multiplier 1.5 takes 16.
C11_Step ==
    (ev.op = "input" /\ ev'.op = "sword_attack") =>
        /\ Len(enemies') = Len(enemies)
        /\ \A i \in DOMAIN enemies :
              IF enemies[i].hp > 0 /\ Near(ev.arg[i], player.weapon_id)
              THEN /\ enemies'[i].hp
                        = enemies[i].hp - MeleeDamage(player.atk, player.weapon_id)
                   /\ enemies'[i].last_hit_by_sword
                   /\ enemies'[i].name = enemies[i].name
                   /\ enemies'[i].max_hp = enemies[i].max_hp
                   /\ enemies'[i].damage = enemies[i].damage
              ELSE enemies'[i] = enemies[i]
        /\ ev'.swordHit = \E i \in DOMAIN enemies :
                              enemies[i].hp > 0 /\ Near(ev.arg[i], player.weapon_id)
        /\ (player.atk = 8 /\ player.weapon_id = "long_sword")
              => MeleeDamage(player.atk, player.weapon_id) = 16

C11_SwordDamage == [][C11_Step]_vars

\* attack 8 with the long sword: the enemy at distance 50 lost 16, the living
\* enemy at distance 200 was not touched
C11_Witness ==
    /\ ev.op = "sword_attack"
    /\ player.atk = 8 /\ player.weapon_id = "long_sword"
    /\ ev.arg = <<(<<60, 80>>), (<<0, 400>>)>>
    /\ enemies[1].hp = 14 /\ enemies[1].last_hit_by_sword
    /\ enemies[2].hp = 30 /\ ~enemies[2].last_hit_by_sword

\* --- entity_hit_player and the projectile that meets the player

Fx(effect, value, duration) == [effect |-> effect, value |-> value, duration |-> duration]

\* the effect an enemy's touch carries
OnHitOf(e) == Fx(e.on_hit_effect, e.on_hit_effect_value, e.on_hit_effect_duration)

\* the effect a projectile carries
EffectOf(pr) == Fx(pr.effect, pr.effect_value, pr.effect_duration)

\* on-hit effects: bleed of 4 or 2 a second for 10 s or 6 s, no-heal for 8 s
\* or 3 s
Effects ==
    {Fx("none", 0, 0), Fx("bleed", 40, 200), Fx("bleed", 20, 120),
     Fx("bleed", 20, 200), Fx("no_heal", 0, 160), Fx("no_heal", 0, 60)}

\* what is active on the player: <<bleed_time_left, bleed_dps, no_heal_time_left>>
Active == {<<0, 0, 0>>, <<120, 20, 0>>, <<200, 40, 60>>, <<100, 60, 160>>}

InitHit ==
    /\ state = StateInit /\ drops = <<>>
    /\ \E charges \in 0..2, timer \in {0, 5}, a \in Active :
          player = [PlayerInit EXCEPT !.armor_hits_remaining = charges,
                                      !.invuln_timer = timer,
                                      !.bleed_time_left = a[1], !.bleed_dps = a[2],
                                      !.no_heal_time_left = a[3]]
    /\ \E hp \in {0, 10}, dmg \in {7, 50}, f \in Effects :
          enemies = << OnHit([EnemyBase EXCEPT !.name = "Imp", !.hp = hp, !.max_hp = 10,
                                               !.damage = dmg],
                             f.effect, f.value, f.duration) >>
    /\ \E f \in Effects :
          projectiles = << NewProjectile(FALSE, 6, f.effect, f.value, f.duration) >>
    /\ \E overlap \in BOOLEAN :
          ev = [Blank EXCEPT !.arg = [overlap |-> overlap, before |-> player,
                                      touch |-> OnHitOf(enemies[1]),
                                      bolt |-> EffectOf(projectiles[1])]]

\* one call of entity_hit_player
Contact ==
    /\ ev.op = "input"
    /\ player' = entity_hit_player(enemies[1], player, ev.arg.overlap)
    /\ ev' = [ev EXCEPT !.op = "contact"]
    /\ UNCHANGED <<state, enemies, projectiles, drops>>

\* one call of projectile_hits with the projectile inside the player's rectangle
ProjectileHit ==
    /\ ev.op = "input"
    /\ LET w == projectile_hits([World EXCEPT !.tr = [ev EXCEPT !.op = "projectile"]],
                                [i \in 1..Len(projectiles) |-> Fate("player", 0)])
       IN  Becomes(w)

\* the effect of the other source applied right after the first
Reapply ==
    /\ ev.op \in {"contact", "projectile"}
    /\ player.invuln_timer = INVULN_TIME /\ ev.arg.before.invuln_timer <= 0
    /\ LET second == IF ev.op = "contact" THEN ev.arg.bolt ELSE ev.arg.touch
       IN  player' = ApplyEffect(player, second.effect, second.value, second.duration)
    /\ ev' = [ev EXCEPT !.op = "reapplied"]
    /\ UNCHANGED <<state, enemies, projectiles, drops>>

NextHit == Contact \/ ProjectileHit \/ Reapply

SpecHit == InitHit /\ [][NextHit]_vars

\* the player's fields a hit may touch, apart from hp, charges and timer
Ailments(p) == <<p.bleed_time_left, p.bleed_dps, p.no_heal_time_left>>

\* max(current, incoming), in the words of the specification
Merged(a, f) ==
    CASE f.effect = "bleed" ->
            << IF a[1] >= f.duration THEN a[1] ELSE f.duration,
               IF a[2] >= f.value THEN a[2] ELSE f.value, a[3] >>
      [] f.effect = "no_heal" ->
            << a[1], a[2], IF a[3] >= f.duration THEN a[3] ELSE f.duration >>
      [] OTHER -> a

\* C12: a living enemy that overlaps a player who is not invulnerable takes
\* one armor charge and no hp when charges > 0, and its contact damage with
\* charges staying 0 otherwise; either way the invulnerability timer is set
\* to INVULN_TIME.  A dead enemy, no overlap or an invulnerable player leave
\* hp, charges, timer and effects as they were.
C12_Step ==
    (ev.op = "input" /\ ev'.op = "contact") =>
        IF enemies[1].hp > 0 /\ ev.arg.overlap /\ player.invuln_timer <= 0
        THEN /\ player'.invuln_timer = INVULN_TIME
             /\ IF player.armor_hits_remaining > 0
                THEN /\ player'.armor_hits_remaining = player.armor_hits_remaining - 1
                     /\ player'.hp = player.hp
                ELSE /\ player'.armor_hits_remaining = 0
                     /\ player'.hp = player.hp - enemies[1].damage
        ELSE player' = player

C12_ArmorAbsorbs == [][C12_Step]_vars

\* two charges and a hit of 50: hp untouched, one charge left, timer set
C12_Witness ==
    /\ ev.op = "contact"
    /\ ev.arg.before.armor_hits_remaining = 2
    /\ enemies[1].damage = 50
    /\ player.armor_hits_remaining = 1
    /\ player.hp = ev.arg.before.hp
    /\ player.invuln_timer = INVULN_TIME

\* C13: an effect applied by contact or by an enemy projectile leaves
\* duration = max(current, incoming) and bleed dps = max(current, incoming);
\* it never adds, applying the same effect again changes nothing, and two
\* effects applied in either order leave the same result.  Bleed (4, 10 s)
\* followed by (2, 6 s) leaves (4, 10 s).
C13_Step ==
    /\ (ev.op = "input" /\ ev'.op = "contact")
          => Ailments(player') =
                IF enemies[1].hp > 0 /\ ev.arg.overlap /\ player.invuln_timer <= 0
                THEN Merged(Ailments(player), OnHitOf(enemies[1]))
                ELSE Ailments(player)
    /\ (ev.op = "input" /\ ev'.op = "projectile")
          => Ailments(player') =
                IF player.invuln_timer <= 0
                THEN Merged(Ailments(player), EffectOf(projectiles[1]))
                ELSE Ailments(player)
    /\ ev'.op = "reapplied"
          => /\ Ailments(player') =
                   Merged(Merged(Ailments(ev.arg.before), ev.arg.touch), ev.arg.bolt)
             /\ Ailments(player') =
                   Merged(Merged(Ailments(ev.arg.before), ev.arg.bolt), ev.arg.touch)
             /\ ev.arg.touch = ev.arg.bolt => player' = player
             /\ (/\ Ailments(ev.arg.before) = <<0, 0, 0>>
                 /\ ev.arg.touch = Fx("bleed", 40, 200)
                 /\ ev.arg.bolt = Fx("bleed", 20, 120))
                   => Ailments(player') = <<200, 40, 0>>

C13_MaxMerge == [][C13_Step]_vars

\* bleed (4, 10 s) by contact, then (2, 6 s): (4, 10 s) is left
C13_Witness ==
    /\ ev.op = "reapplied"
    /\ Ailments(ev.arg.before) = <<0, 0, 0>>
    /\ ev.arg.touch = Fx("bleed", 40, 200)
    /\ ev.arg.bolt = Fx("bleed", 20, 120)
    /\ Ailments(player) = <<200, 40, 0>>

\* --- movement: Player.move, Player.dash and resolve_entity_collision.
\* Positions and velocities are in thousandths of a pixel, rectangles in
\* whole pixels.

DASH_LEN == 80
MaxSteps == 3          \* cap on the moves and dashes of one run

\* int(): towards zero
Trunc(x) == IF x >= 0 THEN x \div 1000 ELSE -((-x) \div 1000)

\* Entity.rect
Rect(x, y, w, h) == [x |-> Trunc(x), y |-> Trunc(y), w |-> w, h |-> h]

\* pygame.Rect.colliderect
colliderect(a, b) ==
    a.x < b.x + b.w /\ b.x < a.x + a.w /\ a.y < b.y + b.h /\ b.y < a.y + a.h

collides_rect(r, obstacles) == \E ob \in obstacles : colliderect(r, ob)

\* generate_arena_obstacles(1): random.seed(1337) places these seven
ArenaObstacles ==
    {[x |-> ob[1], y |-> ob[2], w |-> ob[3], h |-> ob[3]] :
        ob \in {<<1092, 374, 55>>, <<1199, 169, 54>>, <<785, 650, 46>>, <<747, 111, 42>>,
                <<816, 66, 73>>, <<636, 679, 34>>, <<723, 608, 28>>}}

\* the player with the fields of Entity that place it
Placed(x, y) ==
    [w |-> 32, h |-> 32, vx |-> 0, vy |-> 0] @@ [PlayerInit EXCEPT !.x = 1000 * x, !.y = 1000 * y]

\* (dx / length) * spd for dx, dy in -1..1: length is 1 or the square root of 2
Velocity(d, other, spd) == IF other = 0 THEN 1000 * d * spd ELSE d * ((707107 * spd) \div 1000)

Clamp(lo, x, hi) == Max(lo, Min(hi, x))

\* Player.move
move(p, dx, dy) ==
    LET vx == Velocity(dx, dy, p.spd)
        vy == Velocity(dy, dx, p.spd)
    IN  [p EXCEPT !.vx = vx, !.vy = vy,
                  !.x = Clamp(0, @ + vx, 1000 * (WIDTH - p.w)),
                  !.y = Clamp(0, @ + vy, 1000 * (HEIGHT - p.h))]

\* the vertical attempt made before the horizontal one
resolve_vertical_first(e, obstacles, prev_x, prev_y) ==
    IF ~collides_rect(Rect(e.x, e.y, e.w, e.h), obstacles) THEN e
    ELSE IF ~collides_rect(Rect(prev_x, prev_y + e.vy, e.w, e.h), obstacles)
         THEN [e EXCEPT !.x = prev_x, !.y = prev_y + e.vy]
    ELSE IF ~collides_rect(Rect(prev_x + e.vx, prev_y, e.w, e.h), obstacles)
         THEN [e EXCEPT !.x = prev_x + e.vx, !.y = prev_y]
    ELSE [e EXCEPT !.x = prev_x, !.y = prev_y]

resolve_entity_collision(e, obstacles, prev_x, prev_y) ==
    IF ~collides_rect(Rect(e.x, e.y, e.w, e.h), obstacles) THEN e
    ELSE IF ~collides_rect(Rect(prev_x + e.vx, prev_y, e.w, e.h), obstacles)
         THEN [e EXCEPT !.x = prev_x + e.vx, !.y = prev_y]
    ELSE IF ~collides_rect(Rect(prev_x, prev_y + e.vy, e.w, e.h), obstacles)
         THEN [e EXCEPT !.x = prev_x, !.y = prev_y + e.vy]
    ELSE [e EXCEPT !.x = prev_x, !.y = prev_y]

\* Player.dash towards a mouse position straight left, right, up or down
dash_towards(p, dx, dy) ==
    IF p.mana < DASH_MANA_COST THEN p
    ELSE [dash(p) EXCEPT !.x = Clamp(0, @ + 1000 * DASH_LEN * dx, 1000 * (WIDTH - p.w)),
                         !.y = Clamp(0, @ + 1000 * DASH_LEN * dy, 1000 * (HEIGHT - p.h))]

\* the player stands near the tree at the right edge of the first arena
InitMove ==
    /\ state = [StateInit EXCEPT !.in_main_menu = FALSE]
    /\ enemies = <<>> /\ projectiles = <<>> /\ drops = <<>>
    /\ \E x \in {1160, 1164, 1248}, y \in {132, 136, 176} :
          /\ player = Placed(x, y)
          /\ ev = [Blank EXCEPT !.arg = [steps |-> 0, prev_x |-> 1000 * x, prev_y |-> 1000 * y]]

\* the movement of one frame: move, then resolve_entity_collision
Move ==
    /\ ev.op \in {"input", "move", "dash"} /\ ev.arg.steps < MaxSteps
    /\ \E dx \in -1..1, dy \in -1..1 :
          player' = resolve_entity_collision(move(player, dx, dy), ArenaObstacles,
                                             player.x, player.y)
    /\ ev' = [ev EXCEPT !.op = "move",
                        !.arg = [steps |-> @.steps + 1, prev_x |-> player.x, prev_y |-> player.y]]
    /\ UNCHANGED <<state, enemies, projectiles, drops>>

DashTowards ==
    /\ ev.op \in {"input", "move", "dash"} /\ ev.arg.steps < MaxSteps
    /\ \E d \in {<<1, 0>>, <<-1, 0>>, <<0, 1>>, <<0, -1>>} :
          player' = dash_towards(player, d[1], d[2])
    /\ ev' = [ev EXCEPT !.op = "dash",
                        !.arg = [steps |-> @.steps + 1, prev_x |-> player.x, prev_y |-> player.y]]
    /\ UNCHANGED <<state, enemies, projectiles, drops>>

NextMove == Move \/ DashTowards

SpecMove == InitMove /\ [][NextMove]_vars

\* no obstacle overlaps the rectangle whose corner is at (x, y)
Free(x, y) ==
    \A ob \in ArenaObstacles :
        \/ Trunc(x) + 32 <= ob.x \/ ob.x + ob.w <= Trunc(x)
        \/ Trunc(y) + 32 <= ob.y \/ ob.y + ob.h <= Trunc(y)

\* where Player.move puts the player, before the collision is resolved
MovedX == Clamp(0, ev.arg.prev_x + player.vx, 1000 * (WIDTH - 32))
MovedY == Clamp(0, ev.arg.prev_y + player.vy, 1000 * (HEIGHT - 32))

\* C14: resolve_entity_collision keeps the moved position when it is clear;
\* otherwise it takes (prev_x + vx, prev_y) when that is clear, otherwise
\* (prev_x, prev_y + vy) when that is clear, otherwise (prev_x, prev_y): the
\* horizontal attempt always comes before the vertical one.
C14_CollisionPriority ==
    ev.op = "move" =>
        <<player.x, player.y>> =
            IF Free(MovedX, MovedY) THEN <<MovedX, MovedY>>
            ELSE IF Free(ev.arg.prev_x + player.vx, ev.arg.prev_y)
                 THEN <<ev.arg.prev_x + player.vx, ev.arg.prev_y>>
            ELSE IF Free(ev.arg.prev_x, ev.arg.prev_y + player.vy)
                 THEN <<ev.arg.prev_x, ev.arg.prev_y + player.vy>>
            ELSE <<ev.arg.prev_x, ev.arg.prev_y>>

\* a diagonal move into the corner of the tree: both attempts are clear and
\* the horizontal one is taken
C14_Witness ==
    /\ ev.op = "move"
    /\ player.vx > 0 /\ player.vy > 0
    /\ ~Free(MovedX, MovedY)
    /\ Free(ev.arg.prev_x + player.vx, ev.arg.prev_y)
    /\ Free(ev.arg.prev_x, ev.arg.prev_y + player.vy)
    /\ player.x = ev.arg.prev_x + player.vx /\ player.y = ev.arg.prev_y

\* the vertical attempt and the full revert happen as well
C14_Vertical ==
    /\ ev.op = "move" /\ player.vx # 0 /\ player.vy # 0
    /\ player.x = ev.arg.prev_x /\ player.y = ev.arg.prev_y + player.vy

C14_Revert ==
    /\ ev.op = "move" /\ player.vx # 0
    /\ player.x = ev.arg.prev_x /\ player.y = ev.arg.prev_y

\* C15: at the end of every frame the player's rectangle is inside the arena,
\* 0 <= x <= WIDTH - w and 0 <= y <= HEIGHT - h, also after a collision
\* fallback.
C15_InsideArena ==
    ev.op \in {"move", "dash"} =>
        /\ 0 <= player.x /\ player.x <= 1000 * (WIDTH - player.w)
        /\ 0 <= player.y /\ player.y <= 1000 * (HEIGHT - player.h)

\* --- Player.cast_magic, try_buy_weapon and try_buy_armor on their own

InitTrade ==
    /\ state = [StateInit EXCEPT !.in_main_menu = FALSE, !.in_safe_area = TRUE, !.wave = 0]
    /\ enemies = <<>> /\ projectiles = <<>> /\ drops = <<>>
    /\ \E mana \in {0, 2, 3, 4, 20}, mag \in {8, 13}, gold \in {0, 199, 200, 399, 1000, 6000},
          weapon \in {"starter", "war_axe"}, armor \in {<<"none", 0>>, <<"light", 1>>} :
          player = [PlayerInit EXCEPT !.mana = mana, !.mag = mag, !.gold = gold,
                                      !.weapon_id = weapon, !.armor_id = armor[1],
                                      !.armor_hits_remaining = armor[2]]
    /\ \E key \in DOMAIN WEAPONS \cup DOMAIN ARMORS \cup {"club"} :
          ev = [Blank EXCEPT !.arg = [key |-> key, returned |-> FALSE, before |-> player]]

CastMagic ==
    /\ ev.op = "input"
    /\ player' = cast_magic(player).p
    /\ projectiles' = projectiles \o cast_magic(player).pr
    /\ ev' = [ev EXCEPT !.op = "cast_magic", !.arg.returned = cast_magic(player).pr # <<>>]
    /\ UNCHANGED <<state, enemies, drops>>

TryBuyWeapon ==
    /\ ev.op = "input"
    /\ player' = try_buy_weapon(player, ev.arg.key)
    /\ ev' = [ev EXCEPT !.op = "try_buy_weapon",
                        !.arg.returned = /\ ev.arg.key \in DOMAIN WEAPONS
                                         /\ player.gold >= WEAPONS[ev.arg.key].price]
    /\ UNCHANGED <<state, enemies, projectiles, drops>>

TryBuyArmor ==
    /\ ev.op = "input"
    /\ player' = try_buy_armor(player, ev.arg.key)
    /\ ev' = [ev EXCEPT !.op = "try_buy_armor",
                        !.arg.returned = /\ ev.arg.key \in DOMAIN ARMORS
                                         /\ player.gold >= ARMORS[ev.arg.key].price]
    /\ UNCHANGED <<state, enemies, projectiles, drops>>

NextTrade == CastMagic \/ TryBuyWeapon \/ TryBuyArmor

SpecTrade == InitTrade /\ [][NextTrade]_vars

\* C16: a declined operation changes nothing.  cast_magic with mana below
\* MAGIC_MANA_COST gives no projectile and leaves mana alone; try_buy_weapon
\* and try_buy_armor with too little gold or an unknown key return False and
\* leave gold, weapon, armor and charges alone.  An accepted cast takes
\* exactly MAGIC_MANA_COST and gives one player-owned projectile whose damage
\* is the magic stat whatever the weapon; an accepted purchase takes the
\* price, sets the id and, for armor, sets the charges to the armor's hits.
C16_Outcome ==
    LET was == ev.arg.before
        key == ev.arg.key
    IN  /\ ev.op = "cast_magic" =>
              IF was.mana < MAGIC_MANA_COST
              THEN ~ev.arg.returned /\ projectiles = <<>> /\ player = was
              ELSE /\ ev.arg.returned
                   /\ player = [was EXCEPT !.mana = was.mana - MAGIC_MANA_COST]
                   /\ Len(projectiles) = 1
                   /\ projectiles[1].from_player /\ projectiles[1].damage = was.mag
        /\ ev.op = "try_buy_weapon" =>
              IF key \notin DOMAIN WEAPONS \/ was.gold < WEAPONS[key].price
              THEN ~ev.arg.returned /\ player = was
              ELSE /\ ev.arg.returned
                   /\ player = [was EXCEPT !.gold = was.gold - WEAPONS[key].price, !.weapon_id = key]
        /\ ev.op = "try_buy_armor" =>
              IF key \notin DOMAIN ARMORS \/ was.gold < ARMORS[key].price
              THEN ~ev.arg.returned /\ player = was
              ELSE /\ ev.arg.returned
                   /\ player = [was EXCEPT !.gold = was.gold - ARMORS[key].price, !.armor_id = key,
                                           !.armor_hits_remaining = ARMORS[key].hits]
        /\ ev.op # "input" => state.in_safe_area /\ enemies = <<>> /\ drops = <<>>

\* a cast declined for want of mana, with the war axe in hand
C16_Witness ==
    /\ ev.op = "cast_magic" /\ ~ev.arg.returned
    /\ ev.arg.before.mana = 2 /\ player.mana = 2 /\ player.weapon_id = "war_axe"

\* the accepted cast with the war axe, the declined and the accepted purchase
C16_Accepted ==
    /\ ev.op = "cast_magic" /\ ev.arg.returned /\ player.weapon_id = "war_axe"
    /\ projectiles[1].damage = 13

C16_Declined ==
    /\ ev.op = "try_buy_armor" /\ ~ev.arg.returned /\ ev.arg.key = "medium"
    /\ player.gold = 399 /\ player.armor_hits_remaining = 1

C16_Bought ==
    /\ ev.op = "try_buy_armor" /\ ev.arg.returned /\ ev.arg.key = "medium"
    /\ player.gold = 600 /\ player.armor_hits_remaining = 4

\* --- loading: the main menu's Continue on whole and on partial save files

\* pause menu, "Return to Main Menu"
ReturnToMenu ==
    /\ ~state.in_main_menu
    /\ state' = [state EXCEPT !.in_main_menu = TRUE]
    /\ ev' = [NoTrace EXCEPT !.op = "menu"]
    /\ UNCHANGED <<player, enemies, projectiles, drops>>

\* a game saved in the hub of stage 3, every saved field off its default
Veteran ==
    [ st |-> [StateInit EXCEPT !.stage = 3, !.wave = 0, !.in_safe_area = TRUE,
                               !.score = 37, !.stage_start_score = 30,
                               !.play_time = 1234, !.new_game_plus = 1,
                               !.post_boss_10_delay = 0, !.in_main_menu = FALSE,
                               !.volume = 20, !.fullscreen = TRUE,
                               !.sound_enabled = FALSE, !.music_enabled = FALSE,
                               !.music_volume = 0, !.sfx_volume = 100],
      p |-> [Champion EXCEPT !.hp = 17, !.max_hp = 50, !.mana = 4, !.max_mana = 30,
                             !.spd = 5, !.armor_hits_remaining = 1,
                             !.x = 100500, !.y = 1000 * (HEIGHT - 120)] ]

\* a game saved right after New Game
Novice ==
    LET w == in_safe_area_setup([st |-> [StateInit EXCEPT !.in_main_menu = FALSE],
                                 p |-> PlayerInit, en |-> <<>>, pr |-> <<>>])
    IN  [st |-> w.st, p |-> w.p]

Saved == {Veteran, Novice}

\* the payload with some keys gone: top-level, of "settings", of "player"
Without(data, top, sett, inner) ==
    [k \in DOMAIN data \ top |->
        CASE k = "settings" -> [j \in DOMAIN data.settings \ sett |-> data.settings[j]]
          [] k = "player" -> [j \in DOMAIN data.player \ inner |-> data.player[j]]
          [] OTHER -> data[k]]

Partial ==
    {Without(serialize(Veteran.st, Veteran.p), top, sett, inner) :
        top \in SUBSET {"stage", "score", "settings", "player"},
        sett \in {{}, {"volume"}, {"fullscreen", "sfx_volume"}},
        inner \in {{}, {"hp"}, {"gold", "level"}, {"weapon_id", "armor_id", "armor_hits"}}}
      \cup {Without(serialize(Veteran.st, Veteran.p), DOMAIN serialize(Veteran.st, Veteran.p), {}, {})}

LoadFiles == {serialize(s.st, s.p) : s \in Saved} \cup Partial

ContinueLoad == ContinueFrom(LoadFiles)

NextLoad == NewGame \/ ContinueLoad \/ ReturnToMenu

SpecLoad == Init /\ [][NextLoad]_vars

\* the field of Player a key of the payload's "player" is loaded into
FieldOf(k) == IF k = "armor_hits" THEN "armor_hits_remaining" ELSE k

TopKeys ==
    {"stage", "wave", "in_safe_area", "score", "stage_start_score", "play_time",
     "new_game_plus", "post_boss_10_delay"}
SettingKeys ==
    {"volume", "fullscreen", "sound_enabled", "music_enabled", "music_volume", "sfx_volume"}
PlayerKeys ==
    {"x", "y", "hp", "max_hp", "mana", "max_mana", "atk", "mag", "spd", "gold", "exp",
     "level", "weapon_id", "armor_id", "armor_hits"}

\* C17: after a load of a payload with any fields missing, every missing
\* field holds its initial-state value (hp 40, gold 0, level 1, weapon
\* starter, armor none, ...), whatever the state held before the load.
C17_MissingDefaults ==
    ev.op = "continue" =>
        /\ \A k \in TopKeys \ DOMAIN ev.arg : state[k] = StateInit[k]
        /\ \A k \in SettingKeys \ DOMAIN Get(ev.arg, "settings", <<>>) : state[k] = StateInit[k]
        /\ \A k \in PlayerKeys \ DOMAIN Get(ev.arg, "player", <<>>) :
              player[FieldOf(k)] = PlayerInit[FieldOf(k)]

\* the missing top-level and settings fields do take their initial values
C17_StateDefaults ==
    ev.op = "continue" =>
        /\ \A k \in TopKeys \ DOMAIN ev.arg : state[k] = StateInit[k]
        /\ \A k \in SettingKeys \ DOMAIN Get(ev.arg, "settings", <<>>) : state[k] = StateInit[k]

\* a field the player keeps from the game played before the load
C17_KeptGold ==
    /\ ev.op = "continue" /\ "player" \in DOMAIN ev.arg
    /\ "gold" \notin DOMAIN ev.arg.player
    /\ player.gold = 451 /\ player.level = 3

\* C18: loading serialize(s) into any state gives the stage, wave, safe-area
\* flag, score, stage-start score, play time, NG+ counter, settings and the
\* player's position, hp, max_hp, mana, max_mana, atk, mag, spd, gold, exp,
\* level, weapon id, armor id and armor charges of s.
C18_RoundTrip ==
    \A s \in Saved :
        (ev.op = "continue" /\ ev.arg = serialize(s.st, s.p)) =>
            /\ \A k \in (TopKeys \ {"post_boss_10_delay"}) \cup SettingKeys : state[k] = s.st[k]
            /\ \A k \in PlayerKeys : player[FieldOf(k)] = s.p[FieldOf(k)]

\* the veteran's file loaded over a game that New Game had started
C18_Witness ==
    /\ ev.op = "continue" /\ ev.arg = serialize(Veteran.st, Veteran.p)
    /\ state.stage = 3 /\ state.play_time = 1234 /\ state.volume = 20
    /\ player.gold = 451 /\ player.armor_hits_remaining = 1 /\ player.x = 100500

\* --- experience: drops of experience and check_pickups

MaxLevel == 8          \* no experience is dropped from this level on

\* drop_rewards leaves one or two experience drops
ExpDrops ==
    /\ ev.op \in {"init", "pickup"} /\ drops = <<>> /\ player.level < MaxLevel
    /\ \E n \in 1..2 : \E amounts \in [1..n -> {3, 20, 45, 150}] :
          drops' = [i \in 1..n |-> [kind |-> "exp", amount |-> amounts[i]]]
    /\ ev' = [NoTrace EXCEPT !.op = "drop"]
    /\ UNCHANGED <<state, player, enemies, projectiles>>

\* the messages of a whole call of check_pickups on experience drops
RECURSIVE NotesOf(_, _, _)
NotesOf(p, ds, i) ==
    IF i > Len(ds) THEN <<>>
    ELSE LevelNotes([p EXCEPT !.exp = p.exp + ds[i].amount]) \o NotesOf(Pickup(p, ds[i]), ds, i + 1)

\* check_pickups with the player standing on the drops
Collects ==
    /\ ev.op = "drop"
    /\ player' = check_pickups(player, drops, TRUE).p
    /\ drops' = check_pickups(player, drops, TRUE).dr
    /\ ev' = [NoTrace EXCEPT !.op = "pickup",
                             !.arg = [before |-> player, drops |-> drops,
                                      notes |-> NotesOf(player, drops, 1)]]
    /\ UNCHANGED <<state, enemies, projectiles>>

NextLevel == ExpDrops \/ Collects

SpecLevel == Init /\ [][NextLevel]_vars

\* the experience asked for by the levels from..to-1
RECURSIVE Required(_, _)
Required(from, to) ==
    IF from >= to THEN 0
    ELSE (IF from \div 5 = 0 THEN 20 ELSE IF from \div 5 = 1 THEN 40 ELSE 80)
             + Required(from + 1, to)

RECURSIVE Total(_, _)
Total(ds, i) == IF i > Len(ds) THEN 0 ELSE ds[i].amount + Total(ds, i + 1)

\* C19: check_pickups on experience drops ends; afterwards
\* 0 <= exp < required(level), and old exp + amount = new exp + the sum of
\* required(l) over every level l that was left, so that the level rose by
\* exactly the number of successive requirements the experience covers.
C19_ExpConserved ==
    ev.op = "pickup" =>
        /\ drops = <<>>
        /\ 0 <= player.exp /\ player.exp < Required(player.level, player.level + 1)
        /\ player.level >= ev.arg.before.level
        /\ ev.arg.before.exp + Total(ev.arg.drops, 1)
              = player.exp + Required(ev.arg.before.level, player.level)
        /\ Len(ev.arg.notes) = player.level - ev.arg.before.level

\* 150 experience at level 1 with 18 in hand: levels 1 to 6 take 160 of
\* the 168 and leave 8 at level 7
C19_Witness ==
    /\ ev.op = "pickup"
    /\ ev.arg.before.level = 1 /\ ev.arg.before.exp = 18
    /\ Total(ev.arg.drops, 1) = 150
    /\ player.level = 7 /\ player.exp = 8

\* C20: successive level-ups go to attack, magic, health, mana and round
\* again, the level-up from level 1 to level 2 going to attack.
C20_AttackFirst ==
    ev.op = "pickup" =>
        \A i \in 1..Len(ev.arg.notes) :
            ev.arg.notes[i].stat =
                <<"Attack", "Magic", "Health", "Mana">>[((ev.arg.notes[i].level - 2) % 4) + 1]

\* what the code does: the cycle is entered at magic
C20_MagicFirst ==
    ev.op = "pickup" =>
        \A i \in 1..Len(ev.arg.notes) :
            ev.arg.notes[i].stat =
                <<"Magic", "Health", "Mana", "Attack">>[((ev.arg.notes[i].level - 2) % 4) + 1]

\* the stat a level-up message names
StatOf(p, stat) ==
    CASE stat = "Attack" -> p.atk
      [] stat = "Magic" -> p.mag
      [] stat = "Health" -> p.max_hp
      [] stat = "Mana" -> p.max_mana

\* C21: every level-up strictly increases the stat it is allocated to (atk,
\* mag, max_hp or max_mana), for every stat value reachable from the base
\* stats (attack 8, magic 8, hp 40, mana 20).
C21_StrictGrowth ==
    ev.op = "pickup" =>
        \A i \in 1..Len(ev.arg.notes) :
            StatOf(player, ev.arg.notes[i].stat) > StatOf(ev.arg.before, ev.arg.notes[i].stat)

\* what does hold: max_hp grows with every health level-up and hp with it,
\* while attack, magic and max_mana stay at 8, 8 and 20
C21_OnlyHealthGrows ==
    ev.op = "pickup" =>
        /\ player.atk = PLAYER_BASE_ATK /\ player.mag = PLAYER_BASE_MAG
        /\ player.max_mana = PLAYER_BASE_MANA /\ player.mana = PLAYER_BASE_MANA
        /\ player.max_hp - ev.arg.before.max_hp
              = Cardinality({i \in 1..Len(ev.arg.notes) : ev.arg.notes[i].stat = "Health"})
        /\ player.hp = player.max_hp

\* --- get_exp_needed_for_level on its own

MaxAsked == 60         \* the highest level asked about

InitCurve ==
    /\ Quiet /\ player = PlayerInit /\ enemies = <<>>
    /\ \E level \in 1..MaxAsked : ev = [Blank EXCEPT !.arg = [level |-> level, needed |-> 0]]

AskExpNeeded ==
    /\ ev.op = "input"
    /\ ev' = [ev EXCEPT !.op = "exp_needed",
                        !.arg.needed = get_exp_needed_for_level(ev.arg.level)]
    /\ UNCHANGED <<state, player, enemies, projectiles, drops>>

SpecCurve == InitCurve /\ [][AskExpNeeded]_vars

\* 2^n by repeated doubling
RECURSIVE Doubled(_, _)
Doubled(v, n) == IF n = 0 THEN v ELSE Doubled(v + v, n - 1)

\* C22: get_exp_needed_for_level(level) = 20 * 2^(level div 5) for every
\* level >= 1: constant inside each block of five levels, doubling at
\* levels 5, 10 and 15; required(4) = 20, required(5) = 40, required(9) = 40,
\* required(10) = 80.
C22_ExpCurve ==
    ev.op = "exp_needed" =>
        /\ ev.arg.needed = Doubled(20, ev.arg.level \div 5)
        /\ ev.arg.level = 4 => ev.arg.needed = 20
        /\ ev.arg.level = 5 => ev.arg.needed = 40
        /\ ev.arg.level = 9 => ev.arg.needed = 40
        /\ ev.arg.level = 10 => ev.arg.needed = 80
        /\ ev.arg.level \in 15..19 => ev.arg.needed = 160

\* the requirement of level 10, the second doubling
C22_Witness == ev.op = "exp_needed" /\ ev.arg.level = 10 /\ ev.arg.needed = 80

\* --- the reward class of a removed enemy

\* the names spawn_boss gives; the other names come from spawn_minion
BossSpawned(v) ==
    v.name \in {BOSS_LIST[i] : i \in DOMAIN BOSS_LIST} \cup {SECRET_BOSS} \cup TWIN_NAMES

RemovedBosses == {k \in RemovedSet : BossSpawned(ev.seen[k])}

\* C23: a removed enemy that the boss spawn made is granted as a boss (kill
\* score 10, boss reward ranges); one that a minion wave or a summon made is
\* granted as a minion (kill score 3, minion ranges 10..13 gold, 5..9 exp).
C23_RewardClass ==
    PassRan =>
        /\ ev.passScore = 10 * Cardinality(RemovedBosses)
                            + 3 * Cardinality(RemovedSet \ RemovedBosses)
        /\ (Cardinality(RemovedSet) = 1 /\ RemovedBosses = {})
              => ev.dropped[1].amount \in 10..13 /\ ev.dropped[2].amount \in 5..9
        /\ (Cardinality(RemovedSet) = 1 /\ RemovedBosses # {})
              => ev.dropped[1].amount \notin 10..13 /\ ev.dropped[2].amount \notin 5..9

\* what the code does: the class follows the wave counter, which is
\* MINION_WAVES_PER_STAGE + 2 while the boss lives
C23_BossAsMinion ==
    (PassRan /\ RemovedBosses # {}) => ev.passScore = 3 * Cardinality(RemovedSet)
-----------------------------------------------------------------------------
(* Spawn tables under New Game Plus: the pure operations spawn_minion and
   spawn_boss applied to every stage, kind and cycle within bounds. *)

MaxPick == 4           \* longest per-stage minion table (stage 2 has four kinds)

InitSpawn ==
    /\ Quiet /\ player = PlayerInit /\ enemies = <<>>
    /\ \E stage \in 1..SECRET_BOSS_STAGE, ng_plus \in 0..MaxNG, pick \in 1..MaxPick :
          ev = [Blank EXCEPT !.arg = [stage |-> stage, ng_plus |-> ng_plus, pick |-> pick]]

\* spawn_minion with random.choice(enemy_list) fixed to the drawn index
SpawnMinion ==
    /\ ev.op = "input"
    /\ ev.arg.stage \in DOMAIN STAGE_ENEMIES
    /\ ev.arg.pick <= Len(EnemyList(ev.arg.stage))
    /\ enemies' = <<spawn_minion(ev.arg.stage, ev.arg.ng_plus,
                                 EnemyList(ev.arg.stage)[ev.arg.pick])>>
    /\ ev' = [ev EXCEPT !.op = "spawn_minion"]
    /\ UNCHANGED <<state, player, projectiles, drops>>

SpawnBoss ==
    /\ ev.op = "input"
    /\ enemies' = spawn_boss(ev.arg.stage, ev.arg.ng_plus)
    /\ ev' = [ev EXCEPT !.op = "spawn_boss"]
    /\ UNCHANGED <<state, player, projectiles, drops>>

NextSpawn == SpawnMinion \/ SpawnBoss

SpecSpawn == InitSpawn /\ [][NextSpawn]_vars

\* what the same call spawns in the first cycle (NG+ level 0)
FirstCycle ==
    IF ev.op = "spawn_boss" THEN spawn_boss(ev.arg.stage, 0)
    ELSE <<spawn_minion(ev.arg.stage, 0, EnemyList(ev.arg.stage)[ev.arg.pick])>>

Spawned == ev.op \in {"spawn_minion", "spawn_boss"}

\* C24: every spawned enemy's max hp and contact damage are 2^n times the
\* values spawned for the same kind and stage at NG+ level 0.
C24_Doubling ==
    Spawned =>
        \A i \in DOMAIN enemies :
            /\ enemies[i].max_hp = Pow(2, ev.arg.ng_plus) * FirstCycle[i].max_hp
            /\ enemies[i].damage = Pow(2, ev.arg.ng_plus) * FirstCycle[i].damage

\* The doubling holds for every spawned enemy except the small twin, whose
\* offsets (80 hp, 2 damage) are subtracted after the scaling.
C24_AllButSmallTwin ==
    Spawned =>
        \A i \in DOMAIN enemies :
            enemies[i].name # "Tox (Small Twin)" =>
                /\ enemies[i].max_hp = Pow(2, ev.arg.ng_plus) * FirstCycle[i].max_hp
                /\ enemies[i].damage = Pow(2, ev.arg.ng_plus) * FirstCycle[i].damage

C24_SmallTwin ==
    Spawned =>
        \A i \in DOMAIN enemies :
            enemies[i].name = "Tox (Small Twin)" =>
                /\ enemies[i].max_hp = Pow(2, ev.arg.ng_plus) * (FirstCycle[i].max_hp + 80) - 80
                /\ enemies[i].damage = Pow(2, ev.arg.ng_plus) * (FirstCycle[i].damage + 2) - 2
-----------------------------------------------------------------------------
(* The Demon Prince: the boss fight of stage 5, whose boss heals to 80% once.
   Two heroes continue in the arena after the last minion wave: the slayer's
   sword takes 290 a swing, the brawler's 90; both spells take 100.  The
   player swings at the boss or at nothing, casts at the boss, is never
   touched, and the enemies' projectiles leave the arena. *)

PRINCE_STAGE == 5

Slayer == Hero(8, 100, 2 * MAGIC_MANA_COST, "god_sword", "none", 0, 0, 1)
Brawler == Hero(90, 100, 2 * MAGIC_MANA_COST, "starter", "none", 0, 0, 1)

Challenger ==
    [ dts |-> {20}, reach |-> {"none", "first"},
      cast |-> BOOLEAN, dash |-> {FALSE}, nkey |-> {FALSE},
      touch |-> {"none"}, rolls |-> {"lo"}, heal |-> {FALSE},
      fates |-> {"gone", "first"}, regen |-> {FALSE}, pick |-> {TRUE},
      clock |-> FALSE ]

ContinuePrince == ContinueFrom({ArenaSave(PRINCE_STAGE, 100, h) : h \in {Slayer, Brawler}})

FramePrince == FrameOf(Challenger)

NextPrince == ContinuePrince \/ FramePrince

SpecPrince == Init /\ [][NextPrince]_vars

Low(hp, max_hp) == hp * 10 <= max_hp * 2

\* C25: the emergency heal fires in the first enemy pass that reads the
\* boss's hp at or below 20% of max_hp, sets the hp to floor(0.8 * max_hp) and
\* marks the boss; a marked boss is never healed again, however low its hp.
C25_HealOnce ==
    [][ (ev'.op = "frame" /\ ev'.seen # <<>>) =>
          \A k \in 1..Len(enemies) :
              enemies[k].heal_to_80_percent =>
                  /\ ev'.met[k].did_heal = enemies[k].did_heal
                  /\ IF Low(ev'.met[k].hp, enemies[k].max_hp) /\ ~enemies[k].did_heal
                     THEN /\ ev'.seen[k].hp = (8 * enemies[k].max_hp) \div 10
                          /\ ev'.seen[k].did_heal
                          /\ "heals" \in ev'.msgs
                     ELSE /\ ev'.seen[k].hp = ev'.met[k].hp
                          /\ ev'.seen[k].did_heal = enemies[k].did_heal
                          /\ "heals" \notin ev'.msgs
                  /\ \A j \in DOMAIN ev'.kept :
                        ev'.kept[j] = k => enemies'[j].did_heal = ev'.seen[k].did_heal
      ]_vars

\* a pass reads the healed boss low again, alive, and leaves its hp alone
C25_Witness ==
    /\ ev.op = "frame" /\ ev.seen # <<>>
    /\ ev.seen[1].name = "Thilreriltic (Lesser Demon Prince)"
    /\ ev.met[1].did_heal
    /\ ev.met[1].hp > 0 /\ Low(ev.met[1].hp, ev.seen[1].max_hp)
    /\ ev.seen[1].hp = ev.met[1].hp

\* a pass reads the boss at or below zero, unhealed, and heals it
C25_HealedFromZero ==
    /\ ev.op = "frame" /\ ev.seen # <<>>
    /\ ev.seen[1].name = "Thilreriltic (Lesser Demon Prince)"
    /\ ~ev.met[1].did_heal /\ ev.met[1].hp <= 0
    /\ ev.seen[1].hp = 449
-----------------------------------------------------------------------------
(* projectile_hits on its own: two living enemies, one or two projectiles in
   flight, and repeated calls.  Each call draws what the geometry decides for
   every projectile after it moved: "gone" (it overlaps an obstacle or left
   the arena), "over" with the set of enemies whose rectangles contain its
   point, "player" (the player's rectangle contains it) or "fly". *)

MaxInFlight == 2       \* projectiles in flight at the first call

Bolts == {NewProjectile(TRUE, 8, "none", 0, 0), NewProjectile(FALSE, 3, "bleed", 20, 60)}

InitShot ==
    /\ state = StateInit /\ drops = <<>>
    /\ \E timer \in {0, 5} : player = [PlayerInit EXCEPT !.invuln_timer = timer]
    /\ \E hurt1, hurt2 \in {0, 3} :
          enemies = << [spawn_minion(1, 0, "Fly") EXCEPT !.hp = @ - hurt1,
                                                         !.last_hit_by_sword = hurt1 > 0],
                       [spawn_minion(1, 0, "Centipede") EXCEPT !.hp = @ - hurt2,
                                                         !.last_hit_by_sword = hurt2 > 0] >>
    /\ \E n \in 1..MaxInFlight : projectiles \in [1..n -> Bolts]
    /\ ev = Blank
\* what the geometry can decide for the projectiles in flight
ShotFates(prs, en) ==
    LET Mine == {Fate("gone", {}), Fate("fly", {})}
                    \cup {Fate("over", S) : S \in SUBSET (1..Len(en)) \ {{}}}
        Theirs == {Fate("gone", {}), Fate("fly", {}), Fate("player", {})}
    IN  {f \in [1..Len(prs) -> Mine \cup Theirs] :
            \A i \in 1..Len(prs) :
                f[i] \in (IF prs[i].from_player THEN Mine ELSE Theirs)}

\* one call of projectile_hits(state.enemies, state.projectiles, state.player, obstacles)
ProjectileHits ==
    /\ projectiles # <<>>
    /\ \E fates \in ShotFates(projectiles, enemies) :
          LET w == projectile_hits([st |-> state, p |-> player, en |-> enemies,
                                    pr |-> projectiles, dr |-> drops, tr |-> ev], fates)
          IN  /\ player' = w.p
              /\ enemies' = w.en
              /\ projectiles' = w.pr
              /\ ev' = [ev EXCEPT !.op = "projectile_hits",
                                  !.arg = [pr |-> projectiles, en |-> enemies,
                                           p |-> player, fates |-> fates]]
    /\ UNCHANGED <<state, drops>>

SpecShot == InitShot /\ [][ProjectileHits]_vars

ShotRan == ev.op = "projectile_hits"

\* The expected targets of a call.  VictimOf(i) is the enemy projectile i
\* damages: the first in list order, among those whose rectangles contain its
\* point, that the earlier projectiles of the call have left alive.
RECURSIVE VictimOf(_), LostBy(_, _)
VictimOf(i) ==
    IF ~ev.arg.pr[i].from_player \/ ev.arg.fates[i].to # "over" THEN 0
    ELSE LET living == {k \in ev.arg.fates[i].at : ev.arg.en[k].hp - LostBy(k, i - 1) > 0}
         IN  IF living = {} THEN 0 ELSE CHOOSE k \in living : \A j \in living : k <= j

LostBy(k, i) ==
    IF i = 0 THEN 0
    ELSE LostBy(k, i - 1) + (IF VictimOf(i) = k THEN ev.arg.pr[i].damage ELSE 0)

\* the enemy projectiles that find the player's rectangle
OnPlayer == {i \in DOMAIN ev.arg.pr : ~ev.arg.pr[i].from_player /\ ev.arg.fates[i].to = "player"}

\* the one that damages the player: the first of them, if the player was
\* not invulnerable when the call began
Hurts(i) ==
    /\ i \in OnPlayer /\ \A j \in OnPlayer : i <= j
    /\ ev.arg.p.invuln_timer <= 0

Removed(i) == ev.arg.fates[i].to = "gone" \/ VictimOf(i) # 0 \/ Hurts(i)

RECURSIVE Survivors(_)
Survivors(i) ==
    IF i > Len(ev.arg.pr) THEN <<>>
    ELSE (IF Removed(i) THEN <<>> ELSE <<ev.arg.pr[i]>>) \o Survivors(i + 1)

\* C26: in one call every projectile damages at most one target and is removed
\* exactly when it overlaps an obstacle, leaves the arena or damages a target;
\* a player-owned projectile damages the first living enemy in list order
\* whose rectangle contains its point and clears that enemy's melee flag; an
\* enemy-owned projectile damages the player only if the invulnerability
\* timer is not positive.
C26_ProjectileOnce ==
    ShotRan =>
        /\ projectiles = Survivors(1)
        /\ \A k \in DOMAIN enemies :
              /\ enemies[k].hp = ev.arg.en[k].hp - LostBy(k, Len(ev.arg.pr))
              /\ LostBy(k, Len(ev.arg.pr)) > 0 => ~enemies[k].last_hit_by_sword
              /\ LostBy(k, Len(ev.arg.pr)) = 0 => enemies[k] = ev.arg.en[k]
        /\ \A i \in DOMAIN ev.arg.pr :
              Hurts(i) => /\ player.hp = ev.arg.p.hp - ev.arg.pr[i].damage
                          /\ player.invuln_timer = INVULN_TIME
        /\ (\A i \in DOMAIN ev.arg.pr : ~Hurts(i)) => player = ev.arg.p

\* the first bolt kills the fly, the second finds both rectangles and
\* damages the centipede
C26_Witness ==
    /\ ShotRan
    /\ Len(ev.arg.pr) = 2
    /\ ev.arg.fates[1] = Fate("over", {1}) /\ ev.arg.fates[2] = Fate("over", {1, 2})
    /\ ev.arg.en[1].hp = 5 /\ enemies[1].hp = -3
    /\ enemies[2].hp = ev.arg.en[2].hp - 8
    /\ projectiles = <<>>

\* an enemy bolt inside the player's rectangle flies on while the player is
\* invulnerable
C26_PassesThrough ==
    /\ ShotRan
    /\ ev.arg.p.invuln_timer > 0
    /\ \E i \in OnPlayer : \E j \in DOMAIN projectiles : projectiles[j] = ev.arg.pr[i]
    /\ player = ev.arg.p
-----------------------------------------------------------------------------
(* Bleed on its own: one application of bleed with an empty accumulator, then
   frames whose steps dt are drawn anew each time (dt = clock.tick(FPS) / 1000
   has no upper limit).  The frame's timer block runs until the bleed has
   run out. *)

\* frame steps in ticks of 0.05 s: from a twentieth of a second to 0.6 s
FrameSteps == {1, 3, 4, 7, 10, 12}

InitBleed ==
    /\ Quiet /\ enemies = <<>>
    /\ \E hp \in {3, 100}, dps \in {10, 40, 70}, duration \in {10, 20, 30} :
          /\ player = ApplyEffect([PlayerInit EXCEPT !.hp = hp], "bleed", dps, duration)
          /\ ev = [Blank EXCEPT !.arg = [hp |-> hp, dps |-> dps, duration |-> duration,
                                         longest |-> 0, elapsed |-> 0]]

\* the timer block at the top of an unpaused frame
BleedFrame ==
    /\ player.bleed_time_left > 0
    /\ \E dt \in FrameSteps :
          /\ player' = PlayerTimers(player, dt)
          /\ ev' = [ev EXCEPT !.op = "timers",
                              !.arg.longest = Max(@, dt),
                              !.arg.elapsed = @ + dt]
    /\ UNCHANGED <<state, enemies, projectiles, drops>>

SpecBleed == InitBleed /\ [][BleedFrame]_vars

\* int(max(1.0, bleed_dps * 0.5)) as the claim words it
ChunkOf(dps) == IF dps < 20 THEN 1 ELSE dps \div 20

BledOut == ev.op = "timers" /\ player.bleed_time_left = 0

C27_ShortFrames ==
    /\ player.hp >= 0
    /\ (BledOut /\ player.hp > 0 /\ ev.arg.longest <= BLEED_CHUNK) =>
          ev.arg.hp - player.hp = (ev.arg.duration \div BLEED_CHUNK) * ChunkOf(ev.arg.dps)

\* with a longer step the accumulator overshoots the duration: at most one
\* more chunk for steps up to 0.6 s
C27_Overshoot ==
    (BledOut /\ player.hp > 0) =>
        /\ ev.arg.hp - player.hp >= (ev.arg.duration \div BLEED_CHUNK) * ChunkOf(ev.arg.dps)
        /\ ev.arg.hp - player.hp <= (ev.arg.duration \div BLEED_CHUNK + 1) * ChunkOf(ev.arg.dps)
        /\ player.bleed_tick_accum < BLEED_CHUNK
-----------------------------------------------------------------------------
(* A run that loads nothing.  It starts in the main menu with New Game, or
   later in such a run: in the hub of stage 1 with 230 gold saved up, or in
   the arena of stage 3 or 6 when the last minion wave has just fallen, with
   light armor bought and its two charges left.  The player swings at the
   first enemy or at nothing, casts whenever the mana allows, leaves the hub
   at once and is touched by the first enemy whenever that is possible;
   enemy projectiles leave the arena or hit.  The play clock is followed and
   ends the run. *)

Runner ==
    [ dts |-> {20}, reach |-> {"none", "first"},
      cast |-> {TRUE}, dash |-> {FALSE}, nkey |-> {TRUE},
      touch |-> {"first"}, rolls |-> {"lo"}, heal |-> {TRUE},
      fates |-> {"gone", "player"}, regen |-> BOOLEAN, pick |-> {TRUE},
      clock |-> TRUE ]

Saver == [PlayerInit EXCEPT !.gold = 230, !.y = 1000 * (HEIGHT - 120)]

Armored == [PlayerInit EXCEPT !.gold = 30, !.armor_id = "light",
                              !.armor_hits_remaining = ARMORS["light"].hits]

InHub(stage) ==
    [StateInit EXCEPT !.in_main_menu = FALSE, !.stage = stage, !.wave = 0,
                      !.in_safe_area = TRUE]

InArena(stage) ==
    [StateInit EXCEPT !.in_main_menu = FALSE, !.stage = stage,
                      !.wave = MINION_WAVES_PER_STAGE + 1,
                      !.score = 3 * MINION_WAVES_PER_STAGE]

InitRun ==
    /\ enemies = <<>> /\ projectiles = <<>> /\ drops = <<>> /\ ev = NoTrace
    /\ \/ state = StateInit /\ player = PlayerInit
       \/ state = InHub(1) /\ player = Saver
       \/ \E stage \in {3, 6} : state = InArena(stage) /\ player = Armored

FrameRun == FrameOf(Runner)

NextRun == NewGame \/ FrameRun \/ BuyWeapon \/ BuyArmor

SpecRun == InitRun /\ [][NextRun]_vars

\* C28: mana within 0..max_mana, gold not negative, armor charges within
\* 0..hits of the equipped armor, hp at most max_hp for the player and for
\* every enemy, and no negative wave cooldown, bleed, no-heal or
\* invulnerability timer.
C28_Ranges ==
    /\ 0 <= player.mana /\ player.mana <= player.max_mana
    /\ player.gold >= 0
    /\ 0 <= player.armor_hits_remaining
    /\ player.armor_hits_remaining <= ARMORS[player.armor_id].hits
    /\ player.hp <= player.max_hp
    /\ \A k \in DOMAIN enemies :
          enemies[k].hp <= enemies[k].max_hp /\ enemies[k].invuln_timer >= 0
    /\ state.wave_cooldown >= 0
    /\ player.bleed_time_left >= 0 /\ player.no_heal_time_left >= 0
    /\ player.invuln_timer >= 0

\* the stage 3 boss has used up both armor charges and the player bleeds,
\* with too little mana left for a cast
C28_Witness ==
    /\ state.stage = 3 /\ enemies # <<>>
    /\ player.armor_id = "light" /\ player.armor_hits_remaining = 0
    /\ player.bleed_time_left > 0
    /\ player.mana < MAGIC_MANA_COST

\* armor bought in the hub of stage 1 has lost a charge to a minion
C28_BoughtAndWorn ==
    /\ state.stage = 1 /\ ~state.in_safe_area
    /\ player.armor_id = "light" /\ player.gold = 30
    /\ player.armor_hits_remaining = 1

\* a fall: back in the hub after a death, with half the gold
C28_Fallen ==
    /\ ev.op = "frame" /\ ev.died
    /\ player.hp = player.max_hp /\ player.mana = player.max_mana
    /\ player.gold = 15
-----------------------------------------------------------------------------
(* generate_arena_obstacles and the shared random generator.  The generator
   of the random module is one global state: random.seed(n) sets it from n,
   every draw reads it and advances it.  Its algorithm is not part of the
   program, so it is modelled as a linear congruential generator over
   0..Modulus-1 whose multiplier and increment are chosen at the start; the
   state before the first seeding is arbitrary.  ev.arg carries the
   generator (gen), its state (rng), whether a draw was made since the last
   call (drawn), the last call (stage, layout, again: the stage had been
   generated before, mixed: draws preceded the call) and the first layout
   made for each stage generated so far (done, made). *)

Modulus == 64          \* size of the generator's state space

Themes == {1, 5, 10}   \* one stage of each terrain theme

\* one step of the generator
Advance1(gen, x) == (gen.a * x + gen.c) % Modulus

\* random.seed(n)
Seeded(n) == n % Modulus

\* random.randint(lo, hi) and random.random() < p / 10, read from state x
RandInt(x, lo, hi) == lo + (x * (hi - lo + 1)) \div Modulus

Chance(x, p) == x * 10 < p * Modulus

\* add_if_free: the list with the rectangle appended, or the list as it was
add_if_free(obs, x, y, w, h) ==
    IF x < 0 \/ x + w > WIDTH \/ y < 0 \/ y + h > HEIGHT THEN obs
    ELSE IF collides_rect([x |-> x, y |-> y, w |-> w, h |-> h],
                          {obs[i] : i \in DOMAIN obs}) THEN obs
    ELSE IF (x - WIDTH \div 2) * (x - WIDTH \div 2)
              + (y - HEIGHT \div 2) * (y - HEIGHT \div 2) < 120 * 120 THEN obs
    ELSE Append(obs, [x |-> x, y |-> y, w |-> w, h |-> h])

\* x = random.randint(0, WIDTH - w); y = random.randint(0, HEIGHT - h); add_if_free
Place(gen, g, x1, w, h) ==
    [rng |-> Advance1(gen, Advance1(gen, x1)),
     obs |-> add_if_free(g.obs, RandInt(x1, 0, WIDTH - w),
                         RandInt(Advance1(gen, x1), 0, HEIGHT - h), w, h)]

\* w = h = random.randint(lo, hi), then the place
Square(gen, g, lo, hi) ==
    Place(gen, g, Advance1(gen, g.rng), RandInt(g.rng, lo, hi), RandInt(g.rng, lo, hi))

\* a long rectangle, lying with chance p / 10 and standing otherwise
Slab(gen, g, p, longLo, longHi, shortLo, shortHi) ==
    LET x1 == Advance1(gen, g.rng)
        x2 == Advance1(gen, x1)
    IN  IF Chance(g.rng, p)
        THEN Place(gen, g, Advance1(gen, x2), RandInt(x1, longLo, longHi),
                   RandInt(x2, shortLo, shortHi))
        ELSE Place(gen, g, Advance1(gen, x2), RandInt(x1, shortLo, shortHi),
                   RandInt(x2, longLo, longHi))

RECURSIVE Squares(_, _, _, _, _)
Squares(gen, g, n, lo, hi) ==
    IF n = 0 THEN g ELSE Squares(gen, Square(gen, g, lo, hi), n - 1, lo, hi)

RECURSIVE Slabs(_, _, _, _, _, _, _, _)
Slabs(gen, g, n, p, longLo, longHi, shortLo, shortHi) ==
    IF n = 0 THEN g
    ELSE Slabs(gen, Slab(gen, g, p, longLo, longHi, shortLo, shortHi), n - 1,
               p, longLo, longHi, shortLo, shortHi)

\* the three themes, from the generator state g.rng on
Terrain(stage, gen, g) ==
    LET count == 8 + Min(6, stage \div 2)
    IN  IF stage <= 4
        THEN Squares(gen, Squares(gen, Squares(gen, g, (count * 2) \div 3, 36, 56),
                                  count \div 4, 60, 80),
                     count \div 4, 28, 42)
        ELSE IF stage <= 9
        THEN Squares(gen,
                     Squares(gen,
                             Squares(gen, Slabs(gen, g, (count * 2) \div 3, 6, 140, 280, 15, 25),
                                     count \div 4, 40, 60),
                             count \div 5, 30, 45),
                     count \div 4, 25, 40)
        ELSE Squares(gen,
                     Slabs(gen,
                           Squares(gen, Slabs(gen, g, count \div 3, 7, 200, 350, 25, 35),
                                   count \div 3, 60, 90),
                           count \div 4, 5, 80, 120, 20, 30),
                     count \div 5, 35, 50)

\* the generator without random.seed(stage * 1337)
generate_unseeded(stage, gen, rng) == Terrain(stage, gen, [rng |-> rng, obs |-> <<>>])

\* generate_arena_obstacles(stage): the list and the generator state it leaves
generate_arena_obstacles(stage, gen, rng) ==
    Terrain(stage, gen, [rng |-> Seeded(stage * 1337), obs |-> <<>>])

InitArena ==
    /\ Quiet /\ player = PlayerInit /\ enemies = <<>>
    /\ \E a \in {5, 13}, c \in {3, 7}, rng \in {0, 17, 40} :
          ev = [Blank EXCEPT !.arg = [gen |-> [a |-> a, c |-> c], rng |-> rng,
                                      drawn |-> FALSE,
                                      stage |-> 0, layout |-> <<>>,
                                      again |-> FALSE, mixed |-> FALSE,
                                      done |-> {}, made |-> [s \in Themes |-> <<>>]]]

\* any other draw of the program (spawn spots, drops, minion kinds)
OtherDraw ==
    /\ ev' = [ev EXCEPT !.op = "draw", !.arg.rng = Advance1(ev.arg.gen, @),
                        !.arg.drawn = TRUE]
    /\ UNCHANGED <<state, player, enemies, projectiles, drops>>

\* obstacles = generate_arena_obstacles(state.stage)
Generate ==
    /\ \E stage \in Themes :
          LET g == generate_arena_obstacles(stage, ev.arg.gen, ev.arg.rng)
          IN  ev' = [ev EXCEPT !.op = "generate", !.arg.rng = g.rng,
                               !.arg.drawn = FALSE,
                               !.arg.stage = stage, !.arg.layout = g.obs,
                               !.arg.again = stage \in ev.arg.done,
                               !.arg.mixed = ev.arg.drawn,
                               !.arg.done = @ \cup {stage},
                               !.arg.made[stage] = IF stage \in ev.arg.done
                                                   THEN @ ELSE g.obs]
    /\ UNCHANGED <<state, player, enemies, projectiles, drops>>

NextArena == OtherDraw \/ Generate

SpecArena == InitArena /\ [][NextArena]_vars

Generated == ev.op = "generate"

\* C29: a call returns the list the first call for the same stage returned,
\* whatever was drawn in between; every obstacle lies inside the arena,
\* overlaps no other obstacle of the list and has its origin at least 120 px
\* from the arena centre.
C29_Deterministic ==
    Generated =>
        /\ ev.arg.layout = ev.arg.made[ev.arg.stage]
        /\ \A i \in DOMAIN ev.arg.layout :
              LET ob == ev.arg.layout[i]
              IN  /\ ob.x >= 0 /\ ob.x + ob.w <= WIDTH
                  /\ ob.y >= 0 /\ ob.y + ob.h <= HEIGHT
                  /\ (ob.x - 640) * (ob.x - 640) + (ob.y - 360) * (ob.y - 360) >= 14400
                  /\ \A j \in DOMAIN ev.arg.layout :
                        j # i => ~colliderect(ob, ev.arg.layout[j])

\* a repeated call for a stage, made after other draws, that returns
\* obstacles
C29_Witness ==
    /\ Generated
    /\ ev.arg.again /\ ev.arg.mixed
    /\ Len(ev.arg.layout) >= 3
-----------------------------------------------------------------------------
(* The scheduler's cooldowns: a run with light armor, from the hub of stage 1
   or from the arena of stage 1 when the fourth minion wave has just fallen
   and one armor charge is spent.  The play style is the runner's. *)

Worn == [Armored EXCEPT !.armor_hits_remaining = 1]

InitWaves ==
    /\ enemies = <<>> /\ projectiles = <<>> /\ drops = <<>> /\ ev = NoTrace
    /\ \/ state = InHub(1) /\ player = [Armored EXCEPT !.y = 1000 * (HEIGHT - 120)]
       \/ /\ state = [InArena(1) EXCEPT !.wave = MINION_WAVES_PER_STAGE,
                                        !.score = 3 * (MINION_WAVES_PER_STAGE - 1)]
          /\ player = Worn

FrameWaves == FrameOf(Runner)

SpecWaves == InitWaves /\ [][FrameWaves]_vars

HasSpawned(tr) == tr.spawned \in {"minion", "boss"}

\* a combat frame that finds the wave cleared
FoundCleared == ~state.pending_spawn /\ state'.pending_spawn /\ ~ev'.left

\* the gate of a spawn, and the cooldown's settings and countdown
C30_Gate ==
    /\ HasSpawned(ev') =>
          /\ state.pending_spawn /\ ~state'.pending_spawn
          /\ ev'.commit = <<>>
          /\ state'.wave_cooldown = 0
          /\ state'.wave = state.wave + 1
    /\ state'.wave_cooldown > 0 => ~HasSpawned(ev')
    /\ ev'.left => state'.wave_cooldown = LEAVE_COOLDOWN /\ state'.pending_spawn
    /\ FoundCleared => state'.wave_cooldown = WAVE_COOLDOWN
    /\ state'.wave_cooldown < state.wave_cooldown => state.pending_spawn
    /\ (state'.wave_cooldown > state.wave_cooldown) => (ev'.left \/ FoundCleared)

\* C30: a wave or a boss is spawned only with a spawn pending, the list
\* empty and the cooldown at 0; the cooldown is 0.5 s on leaving the hub and
\* 5 s when a wave is found cleared, and falls only while a spawn is pending;
\* every cleared wave, the last minion wave before the boss included, resets
\* the armor charges to the hits of the equipped armor.
C30_Scheduler ==
    [][ /\ C30_Gate
        /\ FoundCleared => player'.armor_hits_remaining = ARMORS[player'.armor_id].hits
      ]_vars

\* the same, with the armor reset only while minion waves remain; before the
\* boss the charges stay as they are
C30_ResetBeforeMinions ==
    [][ /\ C30_Gate
        /\ (FoundCleared /\ state.wave <= MINION_WAVES_PER_STAGE)
              => player'.armor_hits_remaining = ARMORS[player'.armor_id].hits
        /\ (FoundCleared /\ state.wave = MINION_WAVES_PER_STAGE + 1)
              => player'.armor_hits_remaining = player.armor_hits_remaining
      ]_vars

\* the boss has been spawned after its cooldown with a charge still missing
C30_BossUnarmored ==
    /\ ev.op = "frame" /\ ev.spawned = "boss"
    /\ player.armor_id = "light" /\ player.armor_hits_remaining < ARMORS["light"].hits
-----------------------------------------------------------------------------
(* The enemy pass over enemies that are already dead.  Three boss fights are
   continued after the last minion wave: the slayer meets the Insect King of
   stage 1 and the Demon Prince of stage 5, the titan the boss of stage 8.
   The player swings at the first enemy or at nothing and is touched by the
   first enemy or by none; the enemies' projectiles leave the arena. *)

\* a hero whose sword takes 850 a swing
Titan == Hero(120, 100, 0, "god_sword", "none", 0, 0, 1)

Reaper ==
    [ dts |-> {20}, reach |-> {"none", "first"},
      cast |-> {FALSE}, dash |-> {FALSE}, nkey |-> {FALSE},
      touch |-> {"none", "first"}, rolls |-> {"lo"}, heal |-> {FALSE},
      fates |-> {"gone"}, regen |-> {FALSE}, pick |-> {TRUE},
      clock |-> FALSE ]

ContinueSlain ==
    ContinueFrom({ArenaSave(1, 100, Slayer), ArenaSave(PRINCE_STAGE, 100, Slayer),
                  ArenaSave(8, 100, Titan)})

FrameSlain == FrameOf(Reaper)

NextSlain == ContinueSlain \/ FrameSlain

SpecSlain == Init /\ [][NextSlain]_vars

\* the enemy at position k entered the pass of the frame just run with
\* hp <= 0 (the heal test is the first read of the hp in the pass)
Slain(k) == ev'.met[k].hp <= 0

\* what the pass does to a slain enemy before the verdict: the shot timer,
\* the volley, the heal, the thresholds and the speed doubling
SlainActs(k) ==
    LET e == enemies[k]
        v == ev'.seen[k]
    IN  /\ \E dt \in Reaper.dts :
              /\ v.shoot_timer = Shoot(e, dt).shoot_timer
              /\ ev'.shots[k] = IF ShotDue(e, dt) THEN Len(Volley(e)) ELSE 0
              /\ e.shoot_interval > 0 => v.shoot_timer # e.shoot_timer
        /\ IF e.heal_to_80_percent /\ ~e.did_heal
           THEN v.did_heal /\ v.hp = (8 * e.max_hp) \div 10
           ELSE v.hp = ev'.met[k].hp
        /\ \A t \in DOMAIN e.summon_thresholds :
              v.summon_thresholds[t] <=>
                  (e.summon_thresholds[t] \/ v.hp * 10 <= e.max_hp * t)
        /\ v.sped_up <=>
              (e.sped_up \/ (e.speed_doubles_at_half /\ v.hp * 10 <= e.max_hp * 5))

\* the list is replaced after the whole pass: every enemy was iterated, and
\* the new list is the kept positions in order
ReplacedAfter ==
    /\ Len(ev'.seen) >= Len(enemies)
    /\ Len(ev'.commit) = Len(ev'.kept)
    /\ \A j \in DOMAIN ev'.kept :
          /\ ev'.kept[j] \in DOMAIN ev'.seen
          /\ \A i \in DOMAIN ev'.kept : i < j => ev'.kept[i] < ev'.kept[j]
          /\ ev'.commit[j].name = ev'.seen[ev'.kept[j]].name
    /\ \A k \in DOMAIN ev'.seen :
          ev'.seen[k].hp > 0 => \E j \in DOMAIN ev'.kept : ev'.kept[j] = k

\* C31: in the enemy pass an enemy whose hp is already <= 0 still has its
\* shot timer advanced (with a volley if due) and its unfired heal, summon
\* thresholds and speed doubling evaluated before the removal decision, deals
\* no contact damage, and is removed only when the list is replaced by the
\* survivors after the pass.
C31_SlainPass ==
    [][ (ev'.op = "frame" /\ ev'.seen # <<>>) =>
          /\ ReplacedAfter
          /\ \A k \in 1..Len(enemies) :
                Slain(k) => SlainActs(k) /\ ~ev'.hurt[k]
      ]_vars

\* The same, with contact ruled out only for an enemy whose hp is still
\* <= 0 when the contact is tested.
C31_SlainUnlessHealed ==
    [][ (ev'.op = "frame" /\ ev'.seen # <<>>) =>
          /\ ReplacedAfter
          /\ \A k \in 1..Len(enemies) :
                Slain(k) => SlainActs(k) /\ (ev'.seen[k].hp <= 0 => ~ev'.hurt[k])
      ]_vars

\* the Demon Prince enters the pass dead, is healed and hurts the player
C31_HealedStrikes ==
    /\ ev.op = "frame" /\ ev.seen # <<>>
    /\ ev.met[1].hp <= 0 /\ ev.seen[1].hp > 0 /\ ev.hurt[1]

\* a dead enemy fires a volley; a dead enemy summons and doubles its speed
C31_SlainShoots ==
    /\ ev.op = "frame" /\ ev.seen # <<>>
    /\ ev.met[1].hp <= 0 /\ ev.shots[1] > 0 /\ (\A j \in DOMAIN ev.kept : ev.kept[j] # 1)

C31_SlainSummons ==
    /\ ev.op = "frame" /\ ev.seen # <<>>
    /\ ev.met[1].hp <= 0 /\ ev.seen[1].sped_up /\ Len(ev.seen) > 1
    /\ ev.passLen = 1

-----------------------------------------------------------------------------
(* The order of the steps of a frame spent in the arena, read from the log
   each step leaves in the trace. *)

\* a precedes b in the log, and both are there
Precedes(log, a, b) ==
    /\ \E i \in DOMAIN log : log[i] = a
    /\ \E j \in DOMAIN log : log[j] = b
    /\ \A i, j \in DOMAIN log : (log[i] = a /\ log[j] = b) => i < j

\* the log follows the chain: each step precedes the next one
InOrder(log, chain) ==
    \A k \in 1..(Len(chain) - 1) : Precedes(log, chain[k], chain[k + 1])

ArenaFrame == ev'.op = "frame" /\ \E i \in DOMAIN ev'.steps : ev'.steps[i] = "enemies"

-----------------------------------------------------------------------------
(* The shooting block of the enemy pass on its own: every enemy the spawn
   tables produce (each stage, cycle and kind, and each boss encounter) is
   run through the block frame after frame, with frames of 0.15 s and 0.2 s
   (shorter than the shortest interval, 0.25 s); projectiles holds what the
   last run emitted. *)

InitVolley ==
    /\ Quiet /\ player = PlayerInit /\ enemies = <<>>
    /\ \E stage \in 1..SECRET_BOSS_STAGE, ng_plus \in 0..MaxNG, pick \in 1..MaxPick :
          ev = [Blank EXCEPT !.arg = [stage |-> stage, ng_plus |-> ng_plus,
                                      pick |-> pick, dt |-> 0]]

RECURSIVE ShootLoop(_, _, _)
ShootLoop(c, i, dt) ==
    IF i > Len(c.list) THEN c ELSE ShootLoop(Shooting(c, i, dt), i + 1, dt)

\* for e in state.enemies: the shooting behaviours, and nothing else
ShootAll ==
    /\ ev.op \in {"spawn_minion", "spawn_boss", "shoot"}
    /\ \E dt \in {3, 4} :
          LET c == ShootLoop([list |-> enemies, pr |-> <<>>, shots |-> <<>>], 1, dt)
          IN  /\ enemies' = c.list
              /\ projectiles' = c.pr
              /\ ev' = [ev EXCEPT !.op = "shoot", !.shots = c.shots, !.arg.dt = dt]
    /\ UNCHANGED <<state, player, drops>>

NextVolley == SpawnMinion \/ SpawnBoss \/ ShootAll

SpecVolley == InitVolley /\ [][NextVolley]_vars

\* the shot timer of enemy i reaches the interval in the run just made
Due(i) ==
    /\ enemies[i].shoot_interval > 0
    /\ enemies[i].shoot_timer + ev'.arg.dt >= enemies[i].shoot_interval

\* the projectiles enemy i emitted in the run just made
Emitted(i) ==
    LET RECURSIVE Sum(_)
        Sum(k) == IF k = 0 THEN 0 ELSE ev'.shots[k] + Sum(k - 1)
    IN  SubSeq(projectiles', Sum(i - 1) + 1, Sum(i))

Payload(e, pr) ==
    /\ ~pr.from_player
    /\ pr.damage = e.projectile_damage
    /\ pr.effect = e.projectile_effect
    /\ pr.effect_value = e.projectile_effect_value
    /\ pr.effect_duration = e.projectile_effect_duration

PatternCount(pattern, n) ==
    /\ pattern = "aim" => n = 1
    /\ pattern = "cross4" => n = 4
    /\ pattern = "cross8" => n = 8
    /\ pattern = "breath" => n = 5

Volleyed(i) ==
    /\ enemies'[i].shoot_timer
          = enemies[i].shoot_timer + ev'.arg.dt - enemies[i].shoot_interval
    /\ Len(Emitted(i)) >= 1
    /\ PatternCount(enemies[i].projectile_pattern, Len(Emitted(i)))
    /\ \A k \in DOMAIN Emitted(i) : Payload(enemies[i], Emitted(i)[k])

\* C33: for every enemy the spawn tables configure with shoot_interval > 0,
\* each time its shot timer reaches the interval the timer is reduced by one
\* interval and at least one enemy-owned projectile with the enemy's damage
\* and effect payload is added: 1 for aim, 4 for cross4, 8 for cross8, 5 for
\* breath.
C33_VolleyWhenDue ==
    [][ ev'.op = "shoot" => \A i \in DOMAIN enemies : Due(i) => Volleyed(i) ]_vars

\* The same for the enemies whose pattern the shooting block knows.
C33_KnownPatterns ==
    [][ ev'.op = "shoot" =>
          \A i \in DOMAIN enemies :
              (Due(i) /\ enemies[i].projectile_pattern \in {"aim", "cross4", "cross8", "breath"})
                  => Volleyed(i) ]_vars

\* The others lose the interval and emit nothing.
C33_SilentPatterns ==
    [][ ev'.op = "shoot" =>
          \A i \in DOMAIN enemies :
              (Due(i) /\ enemies[i].projectile_pattern \notin {"aim", "cross4", "cross8", "breath"})
                  => /\ enemies'[i].shoot_timer
                         = enemies[i].shoot_timer + ev'.arg.dt - enemies[i].shoot_interval
                     /\ ev'.shots[i] = 0 ]_vars

\* a Goblin Bomber's timer has just wrapped and nothing was emitted
C33_BomberSilent ==
    /\ ev.op = "shoot" /\ Len(enemies) = 1
    /\ enemies[1].name = "Goblin Bomber"
    /\ enemies[1].shoot_timer < ev.arg.dt
    /\ projectiles = <<>>

\* the Demon Prince has just emitted its eight projectiles
C33_PrinceVolley ==
    /\ ev.op = "shoot" /\ Len(enemies) = 1
    /\ enemies[1].projectile_pattern = "cross8"
    /\ Len(projectiles) = 8

-----------------------------------------------------------------------------
(* The status effects of the spawn tables: every enemy the tables produce
   (each stage, cycle and kind, and each boss encounter) touches a player
   who is not invulnerable, or hits the player with a projectile of its
   volley.  The player comes with or without an armor charge and with
   effects already active. *)

InitAil ==
    /\ Quiet /\ enemies = <<>>
    /\ \E charges \in 0..1, a \in Active :
          player = [PlayerInit EXCEPT !.armor_hits_remaining = charges,
                                      !.bleed_time_left = a[1], !.bleed_dps = a[2],
                                      !.no_heal_time_left = a[3]]
    /\ \E stage \in 1..SECRET_BOSS_STAGE, ng_plus \in 0..MaxNG, pick \in 1..MaxPick :
          ev = [Blank EXCEPT !.arg = [stage |-> stage, ng_plus |-> ng_plus,
                                      pick |-> pick, who |-> 0]]

\* entity_hit_player with the rectangles overlapping
Touch ==
    /\ ev.op \in {"spawn_minion", "spawn_boss"}
    /\ \E i \in DOMAIN enemies :
          /\ player' = entity_hit_player(enemies[i], player, TRUE)
          /\ ev' = [ev EXCEPT !.op = "contact", !.arg.who = i]
    /\ UNCHANGED <<state, enemies, projectiles, drops>>

\* projectile_hits with one projectile of an enemy's volley inside the
\* player's rectangle
Shot ==
    /\ ev.op \in {"spawn_minion", "spawn_boss"}
    /\ \E i \in DOMAIN enemies :
          /\ Volley(enemies[i]) # <<>>
          /\ LET w == projectile_hits(
                          [World EXCEPT !.pr = <<Volley(enemies[i])[1]>>,
                                        !.tr = [ev EXCEPT !.op = "shot", !.arg.who = i]],
                          <<Fate("player", 0)>>)
             IN  Becomes(w)

NextAil == SpawnMinion \/ SpawnBoss \/ Touch \/ Shot

SpecAil == InitAil /\ [][NextAil]_vars

\* the payload of the hit just made
PayloadOfHit ==
    IF ev.op = "contact" THEN OnHitOf(enemies[ev.arg.who])
    ELSE Fx(enemies[ev.arg.who].projectile_effect,
            enemies[ev.arg.who].projectile_effect_value,
            enemies[ev.arg.who].projectile_effect_duration)

\* the remaining duration of the player's effect of a kind; the Player has a
\* timer for bleed and for no_heal only
Remaining(p, kind) ==
    CASE kind = "bleed" -> p.bleed_time_left
      [] kind = "no_heal" -> p.no_heal_time_left
      [] OTHER -> 0

HitMade == ev.op \in {"contact", "shot"} /\ player.invuln_timer = INVULN_TIME

\* C34: whenever an enemy projectile with a status-effect payload damages the
\* player, or an enemy with an on-hit effect makes contact, the remaining
\* duration of the player's corresponding effect afterwards is at least the
\* payload's duration, for every effect kind the spawn tables configure.
C34_EffectLasts ==
    (HitMade /\ PayloadOfHit.effect # "none")
        => Remaining(player, PayloadOfHit.effect) >= PayloadOfHit.duration

\* The same for the two kinds the hit handlers know.
C34_BleedAndNoHeal ==
    (HitMade /\ PayloadOfHit.effect \in {"bleed", "no_heal"})
        => Remaining(player, PayloadOfHit.effect) >= PayloadOfHit.duration

\* a Hag's poisoned projectile has damaged a player without effects, and no
\* effect is active afterwards
C34_PoisonDropped ==
    /\ HitMade /\ ev.op = "shot"
    /\ enemies[ev.arg.who].name = "Hag"
    /\ PayloadOfHit = Fx("poison", 10, 60)
    /\ player.hp < player.max_hp
    /\ Ailments(player) = <<0, 0, 0>>

\* the Vampire Lord's touch has set a bleed of 10 s
C34_BleedSet ==
    /\ HitMade /\ ev.op = "contact"
    /\ PayloadOfHit.effect = "bleed" /\ PayloadOfHit.duration = 200
    /\ player.bleed_time_left = 200

-----------------------------------------------------------------------------
(* Stage clear across saves and loads.  A save file is written only on the
   way out of the program (window close, Shift+Q, "Save & Quit"); the next
   run starts with an empty enemy list and reads the file on "Continue".
   Two files are on disk: one written in the arena of stage 1 after the last
   minion wave, and the one the same game writes once its boss has been
   spawned.  The player continues from either, fights the boss with the
   sword, and may return to the main menu and continue again. *)

\* the file written while the boss of stage 1 is alive
MidBossSave == [ArenaSave(1, 100, Slayer) EXCEPT !.wave = MINION_WAVES_PER_STAGE + 2]

Resumer ==
    [ dts |-> {20}, reach |-> {"none", "first"},
      cast |-> {FALSE}, dash |-> {FALSE}, nkey |-> {FALSE},
      touch |-> {"none"}, rolls |-> {"lo"}, heal |-> {FALSE},
      fates |-> {"gone"}, regen |-> {FALSE}, pick |-> {TRUE},
      clock |-> FALSE ]

ContinueResume == ContinueFrom({ArenaSave(1, 100, Slayer), MidBossSave})

FrameResume == FrameOf(Resumer)

NextResume == ContinueResume \/ FrameResume \/ ReturnToMenu

SpecResume == Init /\ [][NextResume]_vars

\* ev.bosses counts the bosses spawned since the player last left Safe or
\* the game was last loaded.
\* C35: StageClear is reached only after a boss of the current stage has
\* been spawned and removed since the player last left Safe, under every
\* interleaving of frames with save, return to menu and load; a state
\* restored from a file saved while a boss was alive does not clear the
\* stage without a boss spawned and defeated after the load.
C35_ClearNeedsBoss ==
    [][ ev'.cleared => ev'.bosses >= 1 ]_vars

\* What the code tests: the wave counter has passed the boss wave and the
\* list is empty after the pass.
C35_ClearAtCounter ==
    [][ ev'.cleared =>
          /\ state.wave = MINION_WAVES_PER_STAGE + 2
          /\ ev'.kept = <<>>
          /\ state'.stage = state.stage + 1 ]_vars

\* the running game is what the file MidBossSave holds: the boss is alive
C35_SavedMidBoss ==
    /\ ev.op = "frame" /\ ev.bosses = 1
    /\ Len(enemies) = 1 /\ enemies[1].name = BOSS_LIST[1] /\ enemies[1].hp > 0
    /\ serialize(state, player) = MidBossSave

\* the first frame after the load of MidBossSave has cleared the stage, and
\* no boss was spawned in this run
C35_ClearedUnfought ==
    /\ ev.op = "frame" /\ ev.cleared /\ ev.bosses = 0
    /\ ev.seen = <<>>
    /\ state.stage = 2 /\ state.in_safe_area

-----------------------------------------------------------------------------
(* The death check after regeneration and pickups.  The slayer continues in
   the arena of stage 1 after the last minion wave and meets the Insect King
   (contact damage 13).  Frames last 1 s, so the health regeneration fires in
   every frame; the boss touches the player or not, the player swings or
   not, a killed enemy drops a heal, and the player stands on the drops or
   not. *)

Straggler ==
    [ dts |-> {20}, reach |-> {"none", "first"},
      cast |-> {FALSE}, dash |-> {FALSE}, nkey |-> {FALSE},
      touch |-> {"none", "first"}, rolls |-> {"lo"}, heal |-> {TRUE},
      fates |-> {"gone"}, regen |-> {FALSE}, pick |-> BOOLEAN,
      clock |-> FALSE ]

ContinueBrink == ContinueFrom({ArenaSave(1, 100, Slayer)})

FrameBrink == FrameOf(Straggler)

NextBrink == ContinueBrink \/ FrameBrink

SpecBrink == Init /\ [][NextBrink]_vars

\* C36: in every frame in which the player's hp is <= 0 after damage has
\* been applied, the death reset occurs at the end of that same frame;
\* regeneration and heal pickups between the damage and the death check do
\* not let the player skip it.
C36_DeathSameFrame ==
    (ev.op = "frame" /\ ev.hpHit <= 0) => ev.died

\* What the code does: the reset follows the hp the death check reads, after
\* regeneration and pickups.
C36_DeathByFinalHp ==
    ev.op = "frame" =>
        /\ ev.died => ev.deathBefore.p.hp <= 0
        /\ ~ev.died => player.hp > 0

\* the damage left the player at 0 hp, the regeneration raised it to 1, and
\* the player plays on in the arena
C36_RegenSaves ==
    /\ ev.op = "frame" /\ ev.hpHit = 0 /\ ~ev.died
    /\ player.hp = HP_REGEN_AMOUNT /\ ~state.in_safe_area

\* the damage left the player below 0 hp and a heal pickup raised it above
C36_HealSaves ==
    /\ ev.op = "frame" /\ ev.hpHit + HP_REGEN_AMOUNT <= 0 /\ ~ev.died
    /\ player.hp > 0

-----------------------------------------------------------------------------
(* Progress of the wave scheduler.  The champion continues in the hub of
   stage 1, 4, 8, 10 or 11 and leaves it or not; in the arena the player swings at every enemy
   or at none and is never touched.  The run is followed until its stage is
   cleared.  The fair specification asks that frames in which the sword
   reaches every living enemy keep being stepped: the main loop steps a frame
   in every iteration, and such a frame always changes the state (the frame
   of 0.5 s moves the regeneration timer), so the action is enabled exactly
   when the loop's guard CanStrike holds. *)

MarchSaves == {HubSave(s, 0, Champion) : s \in {1, 4, 8, 10, SECRET_BOSS_STAGE}}

ContinueMarch == ContinueFrom(MarchSaves)

Striker == [Campaigner EXCEPT !.reach = {"all"}]

FrameMarch == ~ev.cleared /\ FrameOf(Campaigner)

\* a frame in which the sword reaches every living enemy
StrikeFrame == ~ev.cleared /\ FrameOf(Striker)

NextMarch == ContinueMarch \/ FrameMarch

SpecMarch == Init /\ [][NextMarch]_vars

\* a frame can be stepped: the guard of the main loop's iteration
CanStrike == ~state.in_main_menu /\ ~ev.cleared /\ state.score < MaxScore

\* weak fairness of StrikeFrame, with its enabling condition written out
SpecMarchFair ==
    SpecMarch /\ ([]<>(~CanStrike) \/ []<><<StrikeFrame>>_vars)

-----------------------------------------------------------------------------
(* The player's rectangle and the obstacles over whole frames.  The player
   stands at the hub position of stage 1 or 2 and enters the arena; each
   frame in the arena moves the player by the WASD keys, resolves the
   collision and then, when L is held, dashes towards a mouse position
   straight left, right, up or down. *)

\* generate_arena_obstacles(2): random.seed(2 * 1337) places these ten
ArenaObstacles2 ==
    {[x |-> ob[1], y |-> ob[2], w |-> ob[3], h |-> ob[3]] :
        ob \in {<<590, 624, 37>>, <<1026, 548, 46>>, <<802, 429, 49>>, <<1224, 166, 53>>,
                <<923, 534, 52>>, <<351, 361, 46>>, <<188, 310, 76>>, <<118, 95, 74>>,
                <<395, 462, 29>>, <<338, 308, 41>>}}

\* the obstacles of the arena the player is in
ObstaclesOf(stage) == IF stage = 1 THEN ArenaObstacles ELSE ArenaObstacles2

\* where in_safe_area_setup puts the player
HubPlace == Placed(WIDTH \div 2 - 16, HEIGHT - 120)

Clear(p, stage) == ~collides_rect(Rect(p.x, p.y, p.w, p.h), ObstaclesOf(stage))

\* a frame of the arena has just ended
FrameEnded == ev.op = "enter" \/ (ev.op = "stride" /\ ev.arg.steps > 0)

\* in the hub of stage 1 or 2, or in the arena of stage 1 near the tree at
\* its right edge
InitStride ==
    /\ enemies = <<>> /\ projectiles = <<>> /\ drops = <<>>
    /\ \/ /\ \E stage \in 1..2 :
                state = [StateInit EXCEPT !.in_main_menu = FALSE, !.in_safe_area = TRUE,
                                          !.wave = 0, !.stage = stage]
          /\ player = HubPlace
          /\ ev = [Blank EXCEPT !.arg = [steps |-> 0, dashed |-> FALSE, clear |-> TRUE,
                                         prev_x |-> HubPlace.x]]
       \/ /\ state = [StateInit EXCEPT !.in_main_menu = FALSE, !.in_safe_area = FALSE]
          /\ \E x \in {1160, 1164}, y \in {136} :
                /\ player = Placed(x, y)
                /\ ev = [Blank EXCEPT !.op = "stride",
                                      !.arg = [steps |-> 0, dashed |-> FALSE,
                                               clear |-> Clear(Placed(x, y), 1),
                                               prev_x |-> 1000 * x]]

\* the frame in which N is pressed in the hub: move and collision against
\* the hub's empty obstacle list, then leave_safe_area and the obstacles
Enter ==
    /\ ev.op = "input" /\ state.in_safe_area
    /\ state' = leave_safe_area(World).st
    /\ ev' = [ev EXCEPT !.op = "enter"]
    /\ UNCHANGED <<player, enemies, projectiles, drops>>

\* a frame in the arena: move, resolve_entity_collision, dash
Stride ==
    /\ ev.op \in {"enter", "stride"} /\ ev.arg.steps < MaxSteps
    /\ \E dx \in -1..1, dy \in -1..1,
          d \in {<<0, 0>>, <<1, 0>>, <<-1, 0>>, <<0, 1>>, <<0, -1>>} :
          LET m == resolve_entity_collision(move(player, dx, dy), ObstaclesOf(state.stage),
                                            player.x, player.y)
          IN  /\ player' = IF d = <<0, 0>> THEN m ELSE dash_towards(m, d[1], d[2])
              /\ ev' = [ev EXCEPT !.op = "stride",
                                  !.arg = [steps |-> @.steps + 1, dashed |-> d # <<0, 0>>,
                                           clear |-> Clear(player, state.stage),
                                           prev_x |-> player.x]]
    /\ UNCHANGED <<state, enemies, projectiles, drops>>

NextStride == Enter \/ Stride

SpecStride == InitStride /\ [][NextStride]_vars

\* C38: at the end of every frame spent in the arena the player's rectangle
\* overlaps no obstacle: after a normal move, after a dash, and in the frame
\* in which the arena is entered and its obstacles are generated while the
\* player stands at the hub position.
C38_NoOverlap ==
    FrameEnded => Clear(player, state.stage)

\* What the collision step gives: a frame without a dash that begins clear
\* of the obstacles ends clear of them.
C38_MoveStaysClear ==
    (FrameEnded /\ ev.op = "stride" /\ ~ev.arg.dashed /\ ev.arg.clear)
        => Clear(player, state.stage)

\* the dash from the hub position of stage 1 to the right ends inside the
\* bush at (723, 608)
C38_DashInside ==
    /\ ev.op = "stride" /\ ev.arg.dashed /\ ev.arg.clear /\ state.stage = 1
    /\ player.x = 1000 * (WIDTH \div 2 - 16 + DASH_LEN)
    /\ ~Clear(player, 1)

\* the arena of stage 2 is entered onto the tree at (590, 624)
C38_EnterInside ==
    /\ ev.op = "enter" /\ state.stage = 2 /\ ~state.in_safe_area
    /\ player.x = HubPlace.x /\ player.y = HubPlace.y
    /\ ~Clear(player, 2)

\* a frame without a dash was stopped by an obstacle
C38_Stopped ==
    /\ ev.op = "stride" /\ ev.arg.steps > 0 /\ ~ev.arg.dashed /\ ev.arg.clear
    /\ player.vx # 0 /\ player.x = ev.arg.prev_x /\ Clear(player, 1)
    /\ ~Clear([player EXCEPT !.x = @ + player.vx], 1)

-----------------------------------------------------------------------------
(* The grace period: the steps of an arena frame that touch the player's hit
   points, armour charges and invulnerability timer, frame after frame.  Two
   living minions stand in the arena and overlap the player or not; up to
   two enemy projectiles are in flight, shot during the enemy pass, and each
   reaches the player or is lost.  The trace keeps the player as
   the timers left it, the time since the last direct hit and, at a hit, the
   time that had passed since the one before. *)

Pelts == {NewProjectile(FALSE, 3, "none", 0, 0), NewProjectile(FALSE, 5, "none", 0, 0)}

InitGrace ==
    /\ state = [StateInit EXCEPT !.in_main_menu = FALSE, !.in_safe_area = FALSE]
    /\ drops = <<>> /\ projectiles = <<>>
    /\ enemies = <<spawn_minion(1, 0, "Fly"), spawn_minion(1, 0, "Centipede")>>
    /\ \E armor_id \in {"none", "light"} :
          player = [Hero(8, 8, 0, "starter", armor_id, 0, 0, 1) EXCEPT !.hp = 14]
    /\ ev = [Blank EXCEPT !.arg = [since |-> 2 * INVULN_TIME, gap |-> 2 * INVULN_TIME,
                                   before |-> PlayerInit, touch |-> {}, reached |-> 0]]

\* for e in state.enemies: entity_hit_player(e, state.player, dt)
RECURSIVE Contacts(_, _, _, _)
Contacts(p, en, touch, i) ==
    IF i > Len(en) THEN p
    ELSE Contacts(entity_hit_player(en[i], p, i \in touch), en, touch, i + 1)

\* the player has lost hit points or an armour charge
Harmed(before, after) ==
    after.hp < before.hp \/ after.armor_hits_remaining < before.armor_hits_remaining

\* one arena frame: the timers, the contacts of the enemy pass with the
\* projectiles the enemies shoot in it, then projectile_hits
Barrage ==
    /\ ev.op \in {"input", "barrage"} /\ player.hp > 0
    /\ \E dt \in {4, 12},
          touch \in SUBSET (1..Len(enemies)),
          n \in 0..(2 - Len(projectiles)) :
        \E shot \in [1..n -> Pelts] :
          LET timed == Countdown(World, dt)
              met   == [timed EXCEPT !.p = Contacts(@, enemies, touch, 1),
                                     !.pr = @ \o shot]
          IN  \E fates \in FateMaps({"gone", "player"}, met.pr, enemies) :
                LET w   == projectile_hits(met, fates)
                    hit == Harmed(timed.p, w.p)
                IN  Becomes([w EXCEPT !.tr =
                        [ev EXCEPT !.op = "barrage",
                                   !.arg = [since   |-> IF hit THEN 0
                                                        ELSE Min(2 * INVULN_TIME,
                                                                 ev.arg.since + dt),
                                            gap     |-> Min(2 * INVULN_TIME, ev.arg.since + dt),
                                            before  |-> timed.p,
                                            touch   |-> touch,
                                            reached |-> Cardinality(
                                                {k \in DOMAIN fates : fates[k].to = "player"})]]])

SpecGrace == InitGrace /\ [][Barrage]_vars

\* what one source of a direct hit takes: the damage of an enemy that
\* touches the player, or of a projectile in flight in the frame
OneBlow == {enemies[i].damage : i \in ev.arg.touch} \cup {3, 5}

\* C39: a direct hit (enemy contact or enemy projectile) reduces the
\* player's hp or armour charges only when the invulnerability timer, as the
\* frame's countdown left it, is <= 0, and it sets the timer to INVULN_TIME.
\* So a frame takes at most one armour charge or the damage of one source,
\* however many enemies overlap the player and however many projectiles
\* reach the player, and a frame with a direct hit comes at least
\* INVULN_TIME after the previous one; a frame without one leaves hp, armour
\* and timer as the countdown left them.
C39_OneHitPerGrace ==
    ev.op = "barrage" =>
        LET b          == ev.arg.before
            lost_armor == b.armor_hits_remaining - player.armor_hits_remaining
            lost_hp    == b.hp - player.hp
        IN  IF Harmed(b, player)
            THEN /\ b.invuln_timer <= 0
                 /\ player.invuln_timer = INVULN_TIME
                 /\ \/ lost_armor = 1 /\ lost_hp = 0
                    \/ lost_armor = 0 /\ lost_hp \in OneBlow
                 /\ ev.arg.gap >= INVULN_TIME
            ELSE /\ lost_armor = 0 /\ lost_hp = 0
                 /\ player.invuln_timer = b.invuln_timer

\* both minions overlap the player and two projectiles reach the player in
\* one frame, and the player without armour loses the damage of one of them
C39_Witness ==
    /\ ev.op = "barrage"
    /\ Cardinality(ev.arg.touch) = 2 /\ ev.arg.reached = 2
    /\ ev.arg.before.armor_hits_remaining = 0
    /\ Harmed(ev.arg.before, player)

\* a minion overlaps the player inside the grace period and takes nothing
C39_Spared ==
    /\ ev.op = "barrage"
    /\ ev.arg.touch # {} /\ ev.arg.reached > 0
    /\ ev.arg.before.invuln_timer > 0
    /\ ~Harmed(ev.arg.before, player)

\* a projectile hits a player no minion has touched
C39_Pelted ==
    /\ ev.op = "barrage"
    /\ ev.arg.touch = {} /\ ev.arg.reached > 0
    /\ ev.arg.before.hp - player.hp \in {3, 5}
-----------------------------------------------------------------------------
(* The merchant keys on their own: a player in the hub, next to the
   merchant, with any equipment of the catalogs and some gold, presses Q and
   E again and again. *)

InitShop ==
    /\ state = [StateInit EXCEPT !.in_main_menu = FALSE, !.in_safe_area = TRUE, !.wave = 0]
    /\ enemies = <<>> /\ projectiles = <<>> /\ drops = <<>>
    /\ \E weapon_id \in DOMAIN WEAPONS, armor_id \in DOMAIN ARMORS,
          gold \in {0, 1000, 6000, 13000} :
          player = Hero(8, 8, 0, weapon_id, armor_id, gold, 0, 1)
    /\ ev = Blank

NextShop == BuyWeapon \/ BuyArmor

SpecShop == InitShop /\ [][NextShop]_vars

\* a merchant key has just bought something
Purchased == ev.op \in {"buy_weapon", "buy_armor"} /\ "bought" \in ev.msgs

\* C40: a successful purchase through the merchant keys never moves the
\* equipped weapon or armour to an earlier entry of its ordered catalog.
C40_NeverBack ==
    [][ Purchased' =>
            /\ IndexOf(ORDERED_WEAPONS, player'.weapon_id)
                  >= IndexOf(ORDERED_WEAPONS, player.weapon_id)
            /\ IndexOf(ORDERED_ARMORS, player'.armor_id)
                  >= IndexOf(ORDERED_ARMORS, player.armor_id) ]_vars

\* C40, second part: the equipped ids are entries of the ordered catalogs
C40_InCatalog ==
    /\ \E i \in DOMAIN ORDERED_WEAPONS : ORDERED_WEAPONS[i] = player.weapon_id
    /\ \E i \in DOMAIN ORDERED_ARMORS : ORDERED_ARMORS[i] = player.armor_id

\* C40 as the code has it: a purchase moves one of the two to the next entry
\* of its catalog, and from the last entry to the first, leaving the other
C40_NextOrFirst ==
    [][ Purchased' =>
            IF ev'.op = "buy_weapon"
            THEN /\ player'.weapon_id = NextOf(ORDERED_WEAPONS, player.weapon_id)
                 /\ player'.armor_id = player.armor_id
                 /\ IndexOf(ORDERED_WEAPONS, player'.weapon_id)
                       < IndexOf(ORDERED_WEAPONS, player.weapon_id)
                    => player.weapon_id = "god_sword" /\ player'.weapon_id = "starter"
            ELSE /\ player'.armor_id = NextOf(ORDERED_ARMORS, player.armor_id)
                 /\ player'.weapon_id = player.weapon_id
                 /\ IndexOf(ORDERED_ARMORS, player'.armor_id)
                       < IndexOf(ORDERED_ARMORS, player.armor_id)
                    => player.armor_id = "god" /\ player'.armor_id = "none" ]_vars

\* the Q key has replaced the last weapon of the catalog by the first, which
\* only the last one precedes
C40_WeaponWrapped == Purchased /\ ev.op = "buy_weapon" /\ player.weapon_id = "starter"

\* the E key has replaced the last armour of the catalog by none
C40_ArmorWrapped == Purchased /\ ev.op = "buy_armor" /\ player.armor_id = "none"

\* a purchase one entry forward
C40_Forward == Purchased /\ ev.op = "buy_weapon" /\ player.weapon_id = "war_axe"
====
